---- MODULE Spec2Model ----
(***************************************************************************)
(* Model of pebble-solutions/appjs: the resource collection with its       *)
(* not-found cache (AssetsCollection, AssetsCollectionController), the     *)
(* registry of collections (AssetsController), the store mutation helper   *)
(* (dataCollectionMutation), the synchronous part of App.loginProvider and *)
(* the session of the App (checkAuth, authToApi, its refresh timer,        *)
(* toggleLicence, setStructure, clearAuth).  The variable klass says which *)
(* of them a behaviour drives.                                             *)
(*                                                                         *)
(* JavaScript values are records [t, n, s]: t is the type tag, n the value *)
(* of a number, s the characters of a string (a sequence of one-character  *)
(* strings).  Promises are observed through the variable last, which holds *)
(* what the most recent call or continuation delivered to its caller.      *)
(***************************************************************************)
EXTENDS Integers, Sequences, FiniteSets, TLC

(***************************************************************************)
(* Bounds of the model.                                                    *)
(***************************************************************************)
MaxId == 2         \* the API knows the resources 1..MaxId
MaxIds == 2        \* longest id list (number of tokens) of a load payload
MaxCalls == 2      \* calls made on the object in one behaviour
MaxItems == 2      \* longest list of items given to dataCollectionMutation
MaxTime == 10      \* the clock of the App runs from 0 to MaxTime seconds

(***************************************************************************)
(* JavaScript values.                                                      *)
(***************************************************************************)
Undefined == [t |-> "undefined", n |-> 0, s |-> <<>>]
Null == [t |-> "null", n |-> 0, s |-> <<>>]
Num(n) == [t |-> "number", n |-> n, s |-> <<>>]
Str(s) == [t |-> "string", n |-> 0, s |-> s]

\* The value of a decimal digit character, -1 for any other character.
DigitVal(c) ==
    CASE c = "0" -> 0 [] c = "1" -> 1 [] c = "2" -> 2 [] c = "3" -> 3
      [] c = "4" -> 4 [] c = "5" -> 5 [] c = "6" -> 6 [] c = "7" -> 7
      [] c = "8" -> 8 [] c = "9" -> 9 [] OTHER -> -1

DigitChar(d) ==
    CASE d = 0 -> "0" [] d = 1 -> "1" [] d = 2 -> "2" [] d = 3 -> "3"
      [] d = 4 -> "4" [] d = 5 -> "5" [] d = 6 -> "6" [] d = 7 -> "7"
      [] d = 8 -> "8" [] OTHER -> "9"

\* ToNumber of a string: "" is 0, a run of digits its decimal value, anything
\* else NaN (-1 here, which equals no number of the model).
RECURSIVE ToNumberAcc(_, _)
ToNumberAcc(s, acc) ==
    IF s = <<>> THEN acc
    ELSE IF DigitVal(Head(s)) = -1 THEN -1
    ELSE ToNumberAcc(Tail(s), acc * 10 + DigitVal(Head(s)))

ToNumber(s) == ToNumberAcc(s, 0)

\* String(n) for a natural number, as in apiRoute + '/' + id.
RECURSIVE NumToStr(_)
NumToStr(n) ==
    IF n < 10 THEN <<DigitChar(n)>>
    ELSE Append(NumToStr(n \div 10), DigitChar(n % 10))

ToStr(v) == IF v.t = "number" THEN NumToStr(v.n) ELSE v.s

\* Truthiness: undefined, null, 0 and "" are falsy.
Truthy(v) ==
    CASE v.t \in {"undefined", "null"} -> FALSE
      [] v.t = "number" -> v.n # 0
      [] OTHER -> v.s # <<>>

\* a == b: same type compares the values, number against string compares
\* the number with ToNumber(string), undefined and null equal each other
\* and nothing else.
LooseEq(a, b) ==
    CASE a.t = b.t -> a = b
      [] a.t \in {"undefined", "null"} /\ b.t \in {"undefined", "null"} -> TRUE
      [] a.t = "number" /\ b.t = "string" -> ToNumber(b.s) = a.n
      [] a.t = "string" /\ b.t = "number" -> ToNumber(a.s) = b.n
      [] OTHER -> FALSE

\* a === b: same type and same value.
StrictEq(a, b) == a = b

\* String.prototype.split(","): "" splits into [""].
RECURSIVE SplitAcc(_, _, _)
SplitAcc(s, cur, acc) ==
    IF s = <<>> THEN Append(acc, cur)
    ELSE IF Head(s) = "," THEN SplitAcc(Tail(s), <<>>, Append(acc, cur))
    ELSE SplitAcc(Tail(s), Append(cur, Head(s)), acc)

Split(s) == SplitAcc(s, <<>>, <<>>)

\* Array.prototype.join(","): [] joins into "".
RECURSIVE Join(_)
Join(list) ==
    IF list = <<>> THEN <<>>
    ELSE IF Len(list) = 1 THEN list[1]
    ELSE list[1] \o <<",">> \o Join(Tail(list))

\* Array.prototype.findIndex, 1-based, 0 when nothing matches: matches[i]
\* is the value of the callback on the element at i.
FindIndex(matches) ==
    IF \E i \in DOMAIN matches : matches[i]
    THEN CHOOSE i \in DOMAIN matches : matches[i] /\ \A j \in 1..(i - 1) : ~matches[j]
    ELSE 0

\* Array.prototype.splice(index, 1).
Splice(arr, i) == SubSeq(arr, 1, i - 1) \o SubSeq(arr, i + 1, Len(arr))

(***************************************************************************)
(* services/store.js: dataCollectionMutation.  A store collection is a     *)
(* record [def, arr]: def is FALSE when state[assetName] is undefined, arr *)
(* is the array.  The result carries err = TRUE when the mutation throws a *)
(* TypeError (state[assetName] is undefined and an item is processed).     *)
(***************************************************************************)
NoCollection == [def |-> FALSE, arr |-> <<>>]
EmptyCollection == [def |-> TRUE, arr |-> <<>>]

\* The merge replacing the entry by the item: the fields the item does not
\* carry are lost.
MergeInto_Replace(found, data) == data

\* for (const key in data) found[key] = data[key]
MergeInto(found, data) ==
    [k \in (DOMAIN found) \cup (DOMAIN data) |->
        IF k \in DOMAIN data THEN data[k] ELSE found[k]]

\* The refresh that appends the item without looking for its id.
RefreshItem_AlwaysAppend(arr, data) == Append(arr, data)

\* One item of the forEach with action refresh (store.js 28-39).
RefreshItem(arr, data) ==
    LET i == FindIndex([k \in DOMAIN arr |-> LooseEq(arr[k].id, data.id)])
    IN IF i # 0 THEN [arr EXCEPT ![i] = MergeInto(arr[i], data)]
       ELSE Append(arr, data)

\* One item of the forEach with action remove (store.js 20-26): find returns
\* the entry or undefined, never -1, so splice is always called, and with a
\* start that is not a number, which splice reads as 0.
RemoveItem(arr, data) == IF arr = <<>> THEN arr ELSE Tail(arr)

RECURSIVE ForEachItem(_, _, _)
ForEachItem(arr, collection, action) ==
    IF collection = <<>> THEN arr
    ELSE ForEachItem(IF action = "remove" THEN RemoveItem(arr, Head(collection))
                     ELSE RefreshItem(arr, Head(collection)),
                     Tail(collection), action)

\* const action = typeof collectionOptions.action === 'undefined' ? 'refresh' : ...
DefaultAction(action) == IF action = "undefined" THEN "refresh" ELSE action

dataCollectionMutation(asset, action, collection) ==
    IF action = "replace" THEN [err |-> FALSE, asset |-> [def |-> TRUE, arr |-> collection]]
    ELSE IF collection = <<>> THEN [err |-> FALSE, asset |-> asset]
    ELSE IF ~asset.def THEN [err |-> TRUE, asset |-> asset]
    ELSE [err |-> FALSE,
          asset |-> [def |-> TRUE, arr |-> ForEachItem(asset.arr, collection, action)]]

(***************************************************************************)
(* The state of the program.                                               *)
(***************************************************************************)
VARIABLES
    klass,        \* the class of the object under study
    options,      \* the options given to the constructor
    idType,       \* how the API writes the id of a record: "number" or "string"
    constructed,  \* the constructor has returned normally
    state,        \* the store state: asset = state[assetName],
                  \* ns = state[namespace][assetName], pending = state.pending[pendingKey]
    notFoundIds,  \* this.notFoundIds
    inflight,     \* requests sent to the API and awaiting their response
    nbCalls,      \* calls made so far
    controller,   \* the AssetsController: collections[name] is the instance registered
                  \* under name (0 for undefined), resets[i] counts the calls of
                  \* reset() on instance i, resuming holds the calls of import whose
                  \* load() has resolved and that are about to resume after the await
    app,          \* the App: its fields, the session storage, the headers of the
                  \* HTTP client, the timers, the events emitted
    last          \* what the last call or continuation delivered

vars ==
    <<klass, options, idType, constructed, state, notFoundIds, inflight, nbCalls,
      controller, app, last>>

\* What a call or a continuation delivers to the caller.
\*   op, arg, opt: the method called, its id or id list, its
\*       bypass_not_found_cache option;
\*   phase: "call" for the synchronous part of the call, "timer" for a
\*       call made by a timeout that fires, "then" for the
\*       continuation run on the response, "catch" for a failed request,
\*       "resume" for the part of an async method that follows its await;
\*   outcome: "thrown" (an exception thrown to the caller during the call),
\*       "returned" (a synchronous method returned), "awaiting" (a pending
\*       promise was returned), "resolved", "rejected" (the promise of the
\*       call settled), "unsettled" (the continuation ended without settling
\*       the promise of the call, which stays pending for ever);
\*   kind, value: the value delivered ("undefined", "null", "record",
\*       "array") and its entries;
\*   error: the name of the exception;
\*   sent: the request issued by this step, if any;
\*   store: how this step updated the store.
Delivered(op, phase, arg, opt, outcome, kind, value, error, sent, store) ==
    [op |-> op, phase |-> phase, arg |-> arg, opt |-> opt, outcome |-> outcome,
     kind |-> kind, value |-> value, error |-> error, sent |-> sent, store |-> store]

Nothing ==
    Delivered("none", "call", Undefined, FALSE, "none", "undefined", <<>>, "", <<>>, "none")

\* A request to the API: op is the method that sent it, arg the id given to
\* getById or the id list of the payload given to load, route the characters
\* appended to apiRoute + '/', ids the value sent under idParam.
Request(op, arg, route, ids) == [op |-> op, arg |-> arg, route |-> route, ids |-> ids]

(***************************************************************************)
(* services/AssetsCollection.js: the methods, as operators on the store    *)
(* state st and the not-found list nf.                                     *)
(***************************************************************************)
\* getCollection(): the collection the object reads.
getCollection(st) == IF options.namespace THEN st.ns ELSE st.asset

\* Index of the first e with e == id, 0 when there is none.
IndexOfId(list, id) == FindIndex([k \in DOMAIN list |-> LooseEq(list[k], id)])

\* getCollection().find(e => e.id == id), as an index.
IndexInCollection(st, id) ==
    LET arr == getCollection(st).arr
    IN FindIndex([k \in DOMAIN arr |-> LooseEq(arr[k].id, id)])

removeFromNotFound(nf, id) ==
    LET index == IndexOfId(nf, id)
    IN IF index # 0 THEN Splice(nf, index) ELSE nf

\* addToNotFound with its test inverted (index !== -1): nothing is ever added.
addToNotFound_Inverted(nf, id) ==
    LET index == IndexOfId(nf, id)
    IN IF index # 0 THEN Append(nf, id) ELSE nf

addToNotFound(nf, id) ==
    LET index == IndexOfId(nf, id)
    IN IF index = 0 THEN Append(nf, id) ELSE nf

\* isNotFound comparing with === : an id kept as a string is not found again
\* when it is asked for as a number.
isNotFound_Strict(nf, id) == FindIndex([k \in DOMAIN nf |-> StrictEq(nf[k], id)]) # 0

isNotFound(nf, id) == IndexOfId(nf, id) # 0

\* isLoaded looking at the collection only.
isLoaded_CollectionOnly(st, nf, id) == IndexInCollection(st, id) # 0

isLoaded(st, nf, id) == IndexInCollection(st, id) # 0 \/ isNotFound(nf, id)

\* listNotLoadedIds(ids): checkedIds.find returns the element found, which is
\* tested for truthiness.
RECURSIVE ListNotLoadedFrom(_, _, _, _, _)
ListNotLoadedFrom(st, nf, ids, checkedIds, notLoadedIds) ==
    IF ids = <<>> THEN notLoadedIds
    ELSE LET id == Head(ids)
             c == IndexOfId(checkedIds, id)
             checked == c # 0 /\ Truthy(checkedIds[c])
         IN ListNotLoadedFrom(st, nf, Tail(ids), Append(checkedIds, id),
                IF ~isLoaded(st, nf, id) /\ ~checked /\ Truthy(id)
                THEN Append(notLoadedIds, id) ELSE notLoadedIds)

\* listNotLoadedIds without checkedIds: a repeated id is listed each time.
listNotLoadedIds_NoDedup(st, nf, ids) ==
    SelectSeq(ids, LAMBDA id : ~isLoaded(st, nf, id) /\ Truthy(id))

listNotLoadedIds(st, nf, ids) == ListNotLoadedFrom(st, nf, ids, <<>>, <<>>)

\* setPending writing nothing.
setPending_Never(st, val) == st

\* setPending(val): st.pending is "noobject" when state.pending is undefined
\* (the read of state.pending[pendingKey] then throws a TypeError, see Load),
\* "undefined" when the key is not in state.pending.
setPending(st, val) ==
    IF st.pending # "undefined" THEN [st EXCEPT !.pending = val] ELSE st

\* checkForNotFound(requestIds, responseData): e.id === id.
RECURSIVE checkForNotFound(_, _, _)
checkForNotFound(nf, requestIds, responseData) ==
    IF requestIds = <<>> THEN nf
    ELSE LET id == Head(requestIds)
             found == FindIndex([k \in DOMAIN responseData |-> StrictEq(responseData[k].id, id)]) # 0
         IN checkForNotFound(IF found THEN removeFromNotFound(nf, id)
                             ELSE addToNotFound(nf, id),
                             Tail(requestIds), responseData)

\* The store action registered under updateAction or resetAction is code of
\* the application: it is taken to apply the mutation to the collection the
\* object reads.
StoreAction(st, action, collection) ==
    IF options.namespace
    THEN [st EXCEPT !.ns = dataCollectionMutation(st.ns, action, collection).asset]
    ELSE [st EXCEPT !.asset = dataCollectionMutation(st.asset, action, collection).asset]

\* updateCollection(collection): err is TRUE when it throws.
updateCollection(st, collection) ==
    IF options.updateAction
    THEN [err |-> FALSE, state |-> StoreAction(st, "refresh", collection), store |-> "dispatch"]
    ELSE LET r == dataCollectionMutation(st.asset, "refresh", collection)
         IN [err |-> r.err, state |-> [st EXCEPT !.asset = r.asset], store |-> "mutation"]

\* The store part of reset().
resetCollection(st) ==
    IF options.resetAction
    THEN [state |-> StoreAction(st, "replace", <<>>), store |-> "dispatch"]
    ELSE [state |-> [st EXCEPT !.asset = dataCollectionMutation(st.asset, "replace", <<>>).asset],
          store |-> "mutation"]

\* The tokens of an id list, as JavaScript strings.
SplitIds(v) == LET parts == Split(v.s) IN [i \in 1..Len(parts) |-> Str(parts[i])]

JoinIds(ids) == Str(Join([i \in 1..Len(ids) |-> ids[i].s]))

(***************************************************************************)
(* The inputs of the calls and the answers of the API.                     *)
(***************************************************************************)
ApiIds == 1..MaxId

\* The ids given to getById: the falsy ones, and each resource id as a
\* number and as a string.
GetByIdArgs ==
    {Undefined, Num(0), Str(<<>>)}
        \cup {Num(i) : i \in ApiIds} \cup {Str(NumToStr(i)) : i \in ApiIds}

Tokens == {<<>>} \cup {NumToStr(i) : i \in ApiIds}

TokenLists == UNION {[1..n -> Tokens] : n \in 0..MaxIds}

\* The id lists given to load: none, and the comma-separated lists of at
\* most MaxIds tokens.
LoadArgs == {Undefined} \cup {Str(Join(l)) : l \in TokenLists}

\* The record the API holds for resource n.
ApiRecord(n) == [id |-> IF idType = "number" THEN Num(n) ELSE Str(NumToStr(n))]

RECURSIVE Ascending(_)
Ascending(S) ==
    IF S = {} THEN <<>>
    ELSE LET m == CHOOSE x \in S : \A y \in S : x <= y
         IN <<ApiRecord(m)>> \o Ascending(S \ {m})

\* The answers to GET apiRoute/route: nothing, or the record of that id.
AnswersOne(route) ==
    {<<>>} \cup (IF ToNumber(route) \in ApiIds THEN {<<ApiRecord(ToNumber(route))>>} ELSE {})

\* The answers to GET apiRoute with ids under idParam: records of some of the
\* resources asked for, of any resources when no id list is sent.
AnswersList(ids) ==
    LET wanted == IF Truthy(ids)
                  THEN {ToNumber(Split(ids.s)[i]) : i \in 1..Len(Split(ids.s))} \cap ApiIds
                  ELSE ApiIds
    IN {Ascending(S) : S \in SUBSET wanted}

(***************************************************************************)
(* The initial states: the store and the options before construction.      *)
(***************************************************************************)
Classes ==
    {"AssetsCollection", "AssetsCollectionController", "App", "Store", "AssetsController"}

\* No namespace, no store action: the store is mutated directly.
DefaultOptions == [namespace |-> FALSE, updateAction |-> FALSE, resetAction |-> FALSE]

OptionsOf(k) ==
    CASE k = "AssetsCollection" ->
            [namespace : BOOLEAN, updateAction : BOOLEAN, resetAction : BOOLEAN]
      [] k = "AssetsController" ->
            [namespace : BOOLEAN, updateAction : BOOLEAN, resetAction : BOOLEAN]
      [] k = "AssetsCollectionController" ->
            [namespace : {FALSE}, updateAction : BOOLEAN, resetAction : {FALSE}]
      [] OTHER -> [namespace : {FALSE}, updateAction : {FALSE}, resetAction : {FALSE}]

StatesOf(k, o) ==
    CASE k = "AssetsCollection" ->
            [asset : {NoCollection, EmptyCollection},
             ns : IF o.namespace THEN {EmptyCollection} ELSE {NoCollection},
             pending : IF o = DefaultOptions THEN {"noobject", "undefined", "false"}
                       ELSE {"false"}]
      [] k = "AssetsCollectionController" ->
            [asset : {NoCollection, EmptyCollection}, ns : {NoCollection}, pending : {"false"}]
      [] k = "Store" ->
            [asset : {NoCollection, EmptyCollection}, ns : {NoCollection}, pending : {"false"}]
      [] k = "AssetsController" ->
            [asset : {NoCollection, EmptyCollection},
             ns : IF o.namespace THEN {EmptyCollection} ELSE {NoCollection},
             pending : {"false"}]
      [] OTHER -> [asset : {NoCollection}, ns : {NoCollection}, pending : {"false"}]

\* AssetsController.constructor (AssetsController.js 5-7): this.collections = {}.
\* Instance 1 is the AssetsCollection of this model, instance 2 another
\* collection object, of which only the calls of reset() are counted.
Names == {"users", "roles"}

Instances == {1, 2}

NewAssetsController ==
    [collections |-> [name \in Names |-> 0], resets |-> [i \in Instances |-> 0],
     resuming |-> <<>>]

\* App.constructor (app.js 41-60) and the browser around it: now is the
\* clock in seconds, session the sessionStorage, headers the
\* ax.defaults.headers.common of the HTTP client, baseURL the api.baseURL,
\* axBaseURL the ax.defaults.baseURL, licences the this.licences (cached is
\* FALSE while it is null), timers the fire times of the timeouts that are
\* set, events the events dispatched by the last step.
NewApp ==
    [now |-> 0,
     session |-> [local_user |-> Null, licence |-> Null],
     local_user |-> Null,
     active_structure_id |-> Null,
     licence |-> Null,
     baseURL |-> <<>>,
     axBaseURL |-> <<>>,
     licences |-> [cached |-> FALSE, list |-> <<>>],
     headers |-> [Authorization |-> "unset", Structure |-> Undefined],
     timers |-> <<>>,
     events |-> <<>>]

\* A user as the API returns it and as it is kept in the session storage.
User(exp, jwt, primary_structure, structures) ==
    [token |-> [exp |-> exp, jwt |-> jwt],
     login |-> [primary_structure |-> primary_structure],
     structures |-> structures]

Structure(n) == [id |-> Num(n)]

\* What a user says of its structures: the primary structure and the list.
Profiles ==
    {<<Null, <<>>>>, <<Null, <<Structure(2), Structure(1)>>>>,
     <<Undefined, <<Structure(2), Structure(1)>>>>,
     <<Num(1), <<>>>>, <<Num(1), <<Structure(2), Structure(1)>>>>}

\* A licence: db is the host of its API, "" when it has none.
Licences == [db : {"", "h1"}, tls : BOOLEAN] \cup {[db |-> "h2", tls |-> TRUE]}

PersistedLicences == {Null, [db |-> "h1", tls |-> TRUE]}

\* The base URL of the API of a licence (845-847).
LicenceURL(licence) ==
    <<IF licence.tls THEN "https" ELSE "http", "://", licence.db, "/api/">>

\* The token the API at the base URL route issues.
Jwt(route) ==
    IF route = <<>> THEN "jwt@" ELSE "jwt@" \o route[1] \o route[2] \o route[3] \o route[4]

\* The sessions found in the session storage when the App starts, beside
\* the licence l: none, or a user whose token, issued by the API of l (by
\* the API of the configuration when there is no l), expires in 5, 20, 21
\* or 25 seconds.
PersistedUsers(l) ==
    {Null} \cup {User(exp, Jwt(IF l = Null THEN <<>> ELSE LicenceURL(l)), Null,
                      <<Structure(2), Structure(1)>>) :
                       exp \in {5, 20, 21, 25}}

AppsAtStart ==
    UNION {{[NewApp EXCEPT !.session = [local_user |-> u, licence |-> l]] :
                u \in PersistedUsers(l)} : l \in PersistedLicences}

Init ==
    /\ klass \in Classes
    /\ options \in OptionsOf(klass)
    /\ idType \in (IF klass \in {"App", "Store"} THEN {"number"} ELSE {"number", "string"})
    /\ state \in StatesOf(klass, options)
    /\ constructed = (klass = "Store")
    /\ notFoundIds = <<>>
    /\ inflight = <<>>
    /\ nbCalls = 0
    /\ controller = NewAssetsController
    /\ app \in (IF klass = "App" THEN AppsAtStart ELSE {NewApp})
    /\ last = Nothing

config == <<klass, options, idType>>

(***************************************************************************)
(* The constructors (AssetsCollection.js 21-87,                            *)
(* AssetsCollectionController.js 15-61).                                   *)
(***************************************************************************)
New ==
    /\ ~constructed /\ last.op = "none"
    /\ LET collection == IF klass = "AssetsCollectionController"
                         THEN state.asset ELSE getCollection(state)
       IN IF klass # "App" /\ ~collection.def
          THEN /\ last' = Delivered("new", "call", Undefined, FALSE, "thrown", "undefined",
                                    <<>>, "UndefinedCollectionException", <<>>, "none")
               /\ UNCHANGED constructed
          ELSE /\ last' = Delivered("new", "call", Undefined, FALSE, "returned", "undefined",
                                    <<>>, "", <<>>, "none")
               /\ constructed' = TRUE
    /\ notFoundIds' = <<>>
    /\ UNCHANGED <<config, controller, app, state, inflight, nbCalls>>

\* if (!id) throw new UndefinedIdException() (AssetsCollection.js 108,
\* AssetsCollectionController.js 77).
UndefinedId_TypeofOnly(id) == id.t = "undefined"

UndefinedId(id) == ~Truthy(id)

(***************************************************************************)
(* AssetsCollection.getById (103-140).                                     *)
(***************************************************************************)
GetById(id, bypass_not_found_cache) ==
    /\ klass = "AssetsCollection" /\ constructed /\ nbCalls < MaxCalls
    /\ LET found == IndexInCollection(state, id)
           request == Request("getById", id, ToStr(id), Undefined)
           D(outcome, kind, value, error, sent) ==
               Delivered("getById", "call", id, bypass_not_found_cache,
                         outcome, kind, value, error, sent, "none")
       IN IF UndefinedId(id)
          THEN /\ last' = D("rejected", "undefined", <<>>, "UndefinedIdException", <<>>)
               /\ UNCHANGED <<state, notFoundIds, inflight>>
          ELSE IF found # 0
          THEN LET e == getCollection(state).arr[found]
               IN /\ notFoundIds' = removeFromNotFound(notFoundIds, e.id)
                  /\ last' = D("resolved", "record", <<e>>, "", <<>>)
                  /\ UNCHANGED <<state, inflight>>
          ELSE IF isNotFound(notFoundIds, id) /\ ~bypass_not_found_cache
          THEN /\ last' = D("resolved", "null", <<>>, "", <<>>)
               /\ UNCHANGED <<state, notFoundIds, inflight>>
          ELSE /\ inflight' = Append(inflight, request)
               /\ last' = D("awaiting", "undefined", <<>>, "", <<request>>)
               /\ UNCHANGED <<state, notFoundIds>>
    /\ nbCalls' = nbCalls + 1
    /\ UNCHANGED <<config, controller, app, constructed>>

\* The continuation of getById on the answer of the API (126-136).
GetByIdThen(i, data) ==
    /\ klass = "AssetsCollection"
    /\ i \in 1..Len(inflight) /\ inflight[i].op = "getById"
    /\ data \in AnswersOne(inflight[i].route)
    /\ LET id == inflight[i].arg
           D(outcome, kind, value, error, store) ==
               Delivered("getById", "then", id, FALSE, outcome, kind, value, error, <<>>, store)
       IN IF data # <<>>
          THEN LET u == updateCollection(state, data)
               IN /\ notFoundIds' = removeFromNotFound(notFoundIds, id)
                  /\ IF u.err
                     THEN /\ last' = D("unsettled", "undefined", <<>>, "TypeError", "none")
                          /\ UNCHANGED state
                     ELSE /\ last' = D("resolved", "record", data, "", u.store)
                          /\ state' = u.state
          ELSE /\ notFoundIds' = addToNotFound(notFoundIds, id)
               /\ last' = D("resolved", "null", <<>>, "", "none")
               /\ UNCHANGED state
    /\ inflight' = Splice(inflight, i)
    /\ UNCHANGED <<config, controller, app, constructed, nbCalls>>

\* The request of getById fails: getFromApi rejects, the then callback does
\* not run and nothing settles the promise getById returned.
GetByIdFail(i) ==
    /\ klass = "AssetsCollection"
    /\ i \in 1..Len(inflight) /\ inflight[i].op = "getById"
    /\ last' = Delivered("getById", "catch", inflight[i].arg, FALSE, "unsettled",
                         "undefined", <<>>, "Error", <<>>, "none")
    /\ inflight' = Splice(inflight, i)
    /\ UNCHANGED <<config, controller, app, constructed, state, notFoundIds, nbCalls>>

(***************************************************************************)
(* AssetsCollection.load (229-262).  payload is the value of               *)
(* payload[idParam], a string or undefined; requestPayload carries no id   *)
(* list.                                                                   *)
(***************************************************************************)
Load(payload) ==
    /\ klass = "AssetsCollection" /\ constructed /\ nbCalls < MaxCalls
    /\ LET st == setPending(state, "true")
           ids == IF Truthy(payload)
                  THEN JoinIds(listNotLoadedIds(st, notFoundIds, SplitIds(payload)))
                  ELSE payload
           request == Request("load", payload, <<>>, ids)
           D(outcome, kind, error, sent) ==
               Delivered("load", "call", payload, FALSE, outcome, kind, <<>>, error, sent, "none")
       IN IF state.pending = "noobject"
          THEN \* setPending reads state.pending[pendingKey] of an undefined state.pending
               /\ last' = D("rejected", "undefined", "TypeError", <<>>)
               /\ UNCHANGED <<state, inflight>>
          ELSE IF Truthy(payload) /\ ~Truthy(ids)
          THEN \* if (!pl[idParam]) return;
               /\ last' = D("resolved", "undefined", "", <<>>)
               /\ state' = st
               /\ UNCHANGED inflight
          ELSE /\ inflight' = Append(inflight, request)
               /\ last' = D("awaiting", "undefined", "", <<request>>)
               /\ state' = st
    /\ nbCalls' = nbCalls + 1
    /\ UNCHANGED <<config, controller, app, constructed, notFoundIds>>

\* The continuation of load on the answer of the API (248-261).
LoadThen(i, data) ==
    /\ klass = "AssetsCollection"
    /\ i \in 1..Len(inflight) /\ inflight[i].op = "load"
    /\ data \in AnswersList(inflight[i].ids)
    /\ LET payload == inflight[i].arg
           u == updateCollection(state, data)
           D(outcome, kind, value, error, store) ==
               Delivered("load", "then", payload, FALSE, outcome, kind, value, error, <<>>, store)
       IN /\ notFoundIds' = IF Truthy(payload)
                            THEN checkForNotFound(notFoundIds, SplitIds(payload), data)
                            ELSE notFoundIds
          /\ IF u.err
             THEN /\ last' = D("rejected", "undefined", <<>>, "TypeError", "none")
                  /\ state' = setPending(state, "false")
             ELSE /\ last' = D("resolved", "array", data, "", u.store)
                  /\ state' = setPending(u.state, "false")
    /\ inflight' = Splice(inflight, i)
    /\ UNCHANGED <<config, controller, app, constructed, nbCalls>>

\* The request of load fails: the finally block runs and load rejects.
LoadFail(i) ==
    /\ klass = "AssetsCollection"
    /\ i \in 1..Len(inflight) /\ inflight[i].op = "load"
    /\ last' = Delivered("load", "catch", inflight[i].arg, FALSE, "rejected",
                         "undefined", <<>>, "Error", <<>>, "none")
    /\ state' = setPending(state, "false")
    /\ inflight' = Splice(inflight, i)
    /\ UNCHANGED <<config, controller, app, constructed, notFoundIds, nbCalls>>

(***************************************************************************)
(* AssetsCollection.reset (313-325).                                       *)
(***************************************************************************)
Reset ==
    /\ klass = "AssetsCollection" /\ constructed /\ nbCalls < MaxCalls
    /\ notFoundIds' = <<>>
    /\ state' = resetCollection(state).state
    /\ last' = Delivered("reset", "call", Undefined, FALSE, "returned", "undefined",
                         <<>>, "", <<>>, resetCollection(state).store)
    /\ nbCalls' = nbCalls + 1
    /\ UNCHANGED <<config, controller, app, constructed, inflight>>

(***************************************************************************)
(* controllers/AssetsCollectionController.js.  The controller reads        *)
(* state[assetName], keeps its own notFoundIds with the same three methods *)
(* and always updates the store through store.dispatch(updateAction, ...), *)
(* which does nothing when no action is registered under that name.        *)
(***************************************************************************)
CtrlDispatch(st, collection) ==
    IF options.updateAction THEN StoreAction(st, "refresh", collection) ELSE st

\* AssetsCollectionController.getById (70-106): the synchronous part.
CtrlGetById(id, bypass_not_found_cache) ==
    /\ klass = "AssetsCollectionController" /\ constructed /\ nbCalls < MaxCalls
    /\ LET collection == state.asset.arr
           found == FindIndex([k \in DOMAIN collection |-> LooseEq(collection[k].id, id)])
           request == Request("getById", id, ToStr(id), Undefined)
           D(outcome, kind, value, error, sent) ==
               Delivered("getById", "call", id, bypass_not_found_cache,
                         outcome, kind, value, error, sent, "none")
       IN IF UndefinedId(id)
          THEN /\ last' = D("rejected", "undefined", <<>>, "UndefinedIdException", <<>>)
               /\ UNCHANGED <<state, notFoundIds, inflight>>
          ELSE IF found # 0
          THEN LET e == state.asset.arr[found]
               IN /\ notFoundIds' = removeFromNotFound(notFoundIds, e.id)
                  /\ last' = D("resolved", "record", <<e>>, "", <<>>)
                  /\ UNCHANGED <<state, inflight>>
          ELSE IF isNotFound(notFoundIds, id) /\ ~bypass_not_found_cache
          THEN /\ last' = D("resolved", "null", <<>>, "", <<>>)
               /\ UNCHANGED <<state, notFoundIds, inflight>>
          ELSE /\ inflight' = Append(inflight, request)
               /\ last' = D("awaiting", "undefined", <<>>, "", <<request>>)
               /\ UNCHANGED <<state, notFoundIds>>
    /\ nbCalls' = nbCalls + 1
    /\ UNCHANGED <<config, controller, app, constructed>>

\* The continuation of the controller's getById (93-102).  With no data the
\* update action is dispatched with [null]: the action of the application
\* either ignores the null item or throws on it (throws = TRUE), and then
\* resolve is never called.
CtrlGetByIdThen(i, data, throws) ==
    /\ klass = "AssetsCollectionController"
    /\ i \in 1..Len(inflight) /\ inflight[i].op = "getById"
    /\ data \in AnswersOne(inflight[i].route)
    /\ throws => data = <<>> /\ options.updateAction
    /\ LET id == inflight[i].arg
           D(outcome, kind, value, error) ==
               Delivered("getById", "then", id, FALSE, outcome, kind, value, error, <<>>,
                         "dispatch")
       IN IF data # <<>>
          THEN /\ notFoundIds' = removeFromNotFound(notFoundIds, id)
               /\ state' = CtrlDispatch(state, data)
               /\ last' = D("resolved", "record", data, "")
          ELSE /\ notFoundIds' = addToNotFound(notFoundIds, id)
               /\ UNCHANGED state
               /\ last' = IF throws THEN D("unsettled", "undefined", <<>>, "TypeError")
                          ELSE D("resolved", "null", <<>>, "")
    /\ inflight' = Splice(inflight, i)
    /\ UNCHANGED <<config, controller, app, constructed, nbCalls>>

CtrlGetByIdFail(i) ==
    /\ klass = "AssetsCollectionController"
    /\ i \in 1..Len(inflight) /\ inflight[i].op = "getById"
    /\ last' = Delivered("getById", "catch", inflight[i].arg, FALSE, "unsettled",
                         "undefined", <<>>, "Error", <<>>, "none")
    /\ inflight' = Splice(inflight, i)
    /\ UNCHANGED <<config, controller, app, constructed, state, notFoundIds, nbCalls>>

\* AssetsCollectionController.load (151-163): the request is sent with the
\* id list as given.
CtrlLoad(payload) ==
    /\ klass = "AssetsCollectionController" /\ constructed /\ nbCalls < MaxCalls
    /\ LET request == Request("load", payload, <<>>, payload)
       IN /\ inflight' = Append(inflight, request)
          /\ last' = Delivered("load", "call", payload, FALSE, "awaiting", "undefined",
                               <<>>, "", <<request>>, "none")
    /\ nbCalls' = nbCalls + 1
    /\ UNCHANGED <<config, controller, app, constructed, state, notFoundIds>>

CtrlLoadThen(i, data) ==
    /\ klass = "AssetsCollectionController"
    /\ i \in 1..Len(inflight) /\ inflight[i].op = "load"
    /\ data \in AnswersList(inflight[i].ids)
    /\ LET payload == inflight[i].arg
           D(outcome, error, store) ==
               Delivered("load", "then", payload, FALSE, outcome, "undefined", <<>>, error,
                         <<>>, store)
       IN /\ notFoundIds' = IF Truthy(payload)
                            THEN checkForNotFound(notFoundIds, SplitIds(payload), data)
                            ELSE notFoundIds
          /\ state' = CtrlDispatch(state, data)
          /\ last' = D("resolved", "", "dispatch")
    /\ inflight' = Splice(inflight, i)
    /\ UNCHANGED <<config, controller, app, constructed, nbCalls>>

CtrlLoadFail(i) ==
    /\ klass = "AssetsCollectionController"
    /\ i \in 1..Len(inflight) /\ inflight[i].op = "load"
    /\ last' = Delivered("load", "catch", inflight[i].arg, FALSE, "rejected",
                         "undefined", <<>>, "Error", <<>>, "none")
    /\ inflight' = Splice(inflight, i)
    /\ UNCHANGED <<config, controller, app, constructed, state, notFoundIds, nbCalls>>

(***************************************************************************)
(* controllers/AssetsController.js.                                        *)
(***************************************************************************)
\* The error object built by new AssetsCollectionUndefinedException(name)
\* (errors.js 37-43).
AssetsCollectionUndefinedException(collectionName) ==
    [class |-> "AssetsCollectionUndefinedException",
     name |-> "CollectionNameUsedException",
     collectionName |-> collectionName]

\* collectionController.reset() on instance i: the reset is counted, and for
\* the AssetsCollection of this model it is AssetsCollection.reset.
ResetInstance(c, i) == [c EXCEPT !.resets[i] = @ + 1]

\* addCollection without the test of resetOnInit: the collection is reset
\* each time it is registered.
addCollection_AlwaysReset(c, st, nf, name, i, resetOnInit) ==
    [controller |-> [ResetInstance(c, i) EXCEPT !.collections[name] = i],
     state |-> IF i = 1 THEN resetCollection(st).state ELSE st,
     notFoundIds |-> IF i = 1 THEN <<>> ELSE nf,
     store |-> IF i = 1 THEN resetCollection(st).store ELSE "none"]

\* addCollection(name, collectionController, options) (17-29) on the
\* controller c, the store state st and the not-found list nf of instance 1:
\* resetOnInit is "undefined" when options or options.resetOnInit is not
\* given.
addCollection(c, st, nf, name, i, resetOnInit) ==
    LET reset == resetOnInit # "false"
        r == IF reset THEN ResetInstance(c, i) ELSE c
    IN [controller |-> [r EXCEPT !.collections[name] = i],
        state |-> IF reset /\ i = 1 THEN resetCollection(st).state ELSE st,
        notFoundIds |-> IF reset /\ i = 1 THEN <<>> ELSE nf,
        store |-> IF reset /\ i = 1 THEN resetCollection(st).store ELSE "none"]

\* A call of addCollection.
AddCollection(name, i, resetOnInit) ==
    /\ klass = "AssetsController" /\ constructed /\ nbCalls < MaxCalls
    /\ controller.resuming = <<>>
    /\ LET r == addCollection(controller, state, notFoundIds, name, i, resetOnInit)
       IN /\ controller' = r.controller
          /\ state' = r.state
          /\ notFoundIds' = r.notFoundIds
          /\ last' = Delivered("addCollection", "call", Str(<<name>>), resetOnInit # "false",
                               "returned", "undefined", <<>>, "", <<>>, r.store)
    /\ nbCalls' = nbCalls + 1
    /\ UNCHANGED <<config, constructed, inflight, app>>

\* import(name, collectionController) (39-43), up to the await: reset(), then
\* the synchronous part of load() without payload (AssetsCollection.js
\* 229-248), which sends the request.
Import(name) ==
    /\ klass = "AssetsController" /\ constructed /\ nbCalls < MaxCalls
    /\ controller.resuming = <<>>
    /\ LET request == Request("import", Str(<<name>>), <<>>, Undefined)
       IN /\ controller' = ResetInstance(controller, 1)
          /\ notFoundIds' = <<>>
          /\ state' = setPending(resetCollection(state).state, "true")
          /\ inflight' = Append(inflight, request)
          /\ last' = Delivered("import", "call", Str(<<name>>), FALSE, "awaiting", "undefined",
                               <<>>, "", <<request>>, resetCollection(state).store)
    /\ nbCalls' = nbCalls + 1
    /\ UNCHANGED <<config, constructed, app>>

\* The answer to the request of load() arrives: the rest of load()
\* (AssetsCollection.js 248-261).  When updateCollection throws, load()
\* rejects and so does import(); otherwise load() resolves and import() is
\* to resume.
ImportThen(i, data) ==
    /\ klass = "AssetsController" /\ controller.resuming = <<>>
    /\ i \in 1..Len(inflight) /\ inflight[i].op = "import"
    /\ data \in AnswersList(inflight[i].ids)
    /\ LET name == inflight[i].arg
           u == updateCollection(state, data)
           D(outcome, value, error, store) ==
               Delivered("import", "then", name, FALSE, outcome, "undefined", value, error,
                         <<>>, store)
       IN IF u.err
          THEN /\ last' = D("rejected", <<>>, "TypeError", "none")
               /\ state' = setPending(state, "false")
               /\ UNCHANGED controller
          ELSE /\ last' = D("awaiting", data, "", u.store)
               /\ state' = setPending(u.state, "false")
               /\ controller' = [controller EXCEPT
                                    !.resuming = Append(@, [name |-> name, data |-> data])]
    /\ inflight' = Splice(inflight, i)
    /\ UNCHANGED <<config, constructed, notFoundIds, nbCalls, app>>

\* import() resumes after the await (43): addCollection with resetOnInit
\* false, and the promise of import() resolves.
ImportResume ==
    /\ klass = "AssetsController" /\ controller.resuming # <<>>
    /\ LET name == Head(controller.resuming).name
           r == addCollection([controller EXCEPT !.resuming = Tail(@)], state, notFoundIds,
                              name.s[1], 1, "false")
       IN /\ controller' = r.controller
          /\ state' = r.state
          /\ notFoundIds' = r.notFoundIds
          /\ last' = Delivered("import", "resume", name, FALSE, "resolved", "undefined",
                               Head(controller.resuming).data, "", <<>>, r.store)
    /\ UNCHANGED <<config, constructed, inflight, nbCalls, app>>

\* The request of load() fails: load() and import() reject, nothing is
\* registered.
ImportFail(i) ==
    /\ klass = "AssetsController" /\ controller.resuming = <<>>
    /\ i \in 1..Len(inflight) /\ inflight[i].op = "import"
    /\ last' = Delivered("import", "catch", inflight[i].arg, FALSE, "rejected",
                         "undefined", <<>>, "Error", <<>>, "none")
    /\ state' = setPending(state, "false")
    /\ inflight' = Splice(inflight, i)
    /\ UNCHANGED <<config, constructed, notFoundIds, nbCalls, controller, app>>

\* AssetsController.getCollection(name) (52-58).  The value returned is the
\* instance, written as a record.
ControllerGetCollection(name) ==
    /\ klass = "AssetsController" /\ constructed /\ nbCalls < MaxCalls
    /\ controller.resuming = <<>>
    /\ last' = IF controller.collections[name] = 0
               THEN Delivered("getCollection", "call", Str(<<name>>), FALSE, "thrown", "error",
                              <<AssetsCollectionUndefinedException(name)>>,
                              "AssetsCollectionUndefinedException", <<>>, "none")
               ELSE Delivered("getCollection", "call", Str(<<name>>), FALSE, "returned",
                              "instance", <<[instance |-> controller.collections[name]]>>,
                              "", <<>>, "none")
    /\ nbCalls' = nbCalls + 1
    /\ UNCHANGED <<config, constructed, state, notFoundIds, inflight, controller, app>>

(***************************************************************************)
(* services/store.js: dataCollectionMutation called on the state of a      *)
(* store, as the mutations of an application do.  The items carry an id    *)
(* and some of the fields a and b.                                         *)
(***************************************************************************)
ItemIds == {Num(1), Num(2), Str(<<"1">>)}

Items ==
    UNION {{[id |-> i, a |-> "x"], [id |-> i, a |-> "z"], [id |-> i, b |-> "y"]} : i \in ItemIds}

ItemLists == UNION {[1..n -> Items] : n \in 0..MaxItems}

MutationActions == {"undefined", "refresh", "replace", "remove"}

Mutation(action, collection) ==
    /\ klass = "Store" /\ nbCalls < MaxCalls
    /\ LET r == dataCollectionMutation(state.asset, DefaultAction(action), collection)
       IN /\ state' = [state EXCEPT !.asset = r.asset]
          /\ last' = Delivered("dataCollectionMutation", "call", Str(<<action>>), FALSE,
                               IF r.err THEN "thrown" ELSE "returned", "undefined",
                               collection, IF r.err THEN "TypeError" ELSE "", <<>>, "mutation")
    /\ nbCalls' = nbCalls + 1
    /\ UNCHANGED <<config, controller, app, constructed, notFoundIds, inflight>>

(***************************************************************************)
(* app.js: App.loginProvider (369-395).  The two referenced providers      *)
(* return the promise of signInWithPopup; any other name throws.           *)
(***************************************************************************)
AuthProviders == {"google", "microsoft", "facebook"}

\* The events of the step before are forgotten.
Quiet(a) == [a EXCEPT !.events = <<>>]

\* loginProvider declared async: the exception rejects the returned promise.
loginProvider_Async(authProvider) ==
    /\ klass = "App" /\ constructed /\ nbCalls < MaxCalls
    /\ last' = IF authProvider \in {"google", "microsoft"}
               THEN Delivered("loginProvider", "call", Str(<<authProvider>>), FALSE, "awaiting",
                              "undefined", <<>>, "", <<>>, "none")
               ELSE Delivered("loginProvider", "call", Str(<<authProvider>>), FALSE, "rejected",
                              "undefined", <<>>, "AuthProviderUnreferencedError", <<>>, "none")
    /\ app' = Quiet(app)
    /\ nbCalls' = nbCalls + 1
    /\ UNCHANGED <<config, controller, constructed, state, notFoundIds, inflight>>

loginProvider(authProvider) ==
    /\ klass = "App" /\ constructed /\ nbCalls < MaxCalls
    /\ last' = IF authProvider \in {"google", "microsoft"}
               THEN Delivered("loginProvider", "call", Str(<<authProvider>>), FALSE, "awaiting",
                              "undefined", <<>>, "", <<>>, "none")
               ELSE Delivered("loginProvider", "call", Str(<<authProvider>>), FALSE, "thrown",
                              "undefined", <<>>, "AuthProviderUnreferencedError", <<>>, "none")
    /\ app' = Quiet(app)
    /\ nbCalls' = nbCalls + 1
    /\ UNCHANGED <<config, controller, constructed, state, notFoundIds, inflight>>

(***************************************************************************)
(* app.js: the session of the App with the API.  A call of authToApi that  *)
(* does not reuse the persisted session waits for getIdToken, then for the *)
(* answer to POST /auth; both are kept in inflight, arg being the caller   *)
(* that waits for authToApi and route the base URL the request goes to.    *)
(***************************************************************************)
\* The caller of authToApi: its origin ("call", "timer", "toggleLicence",
\* "checkAuth") followed, for a call made through toggleLicence(licence), by
\* the base URL of that licence.
Caller(origin, baseURL) == Str(<<origin>> \o baseURL)

\* The 20000 ms of authToApi (486) and startAuthTimer (695), in seconds.
Margin == 20

\* The time that passes in one step of the clock.
Elapses == {5}

\* The lifetime of the tokens the API issues.
Lifetimes == {25}

\* The users the API at route answers POST /auth with.
ApiUsers(now, route) ==
    {User(now + life, Jwt(route), p[1], p[2]) : life \in Lifetimes, p \in Profiles}

\* dispatchEvent(event, payload) (681-685).
dispatchEvent(a, event) == [a EXCEPT !.events = Append(@, event)]

\* initializeLocalUser keeping the primary structure whatever it is.
initializeLocalUser_NoFallback(a, user) ==
    IF user = Undefined THEN [a EXCEPT !.session.local_user = Undefined]
    ELSE
    LET active == user.login.primary_structure
    IN dispatchEvent(dispatchEvent(
           [a EXCEPT !.session.local_user = user,
                     !.active_structure_id = active,
                     !.local_user = user,
                     !.headers = [Authorization |-> user.token.jwt, Structure |-> active]],
           "authChanged"), "structureChanged")

\* initializeLocalUser(user) (572-595).  For a user that is undefined the
\* item local_user of the session storage is set to JSON.stringify(user),
\* kept by the storage as the string "undefined" (574), and the read of
\* user.login throws a TypeError (579) before anything else is done.
initializeLocalUser(a, user) ==
    IF user = Undefined THEN [a EXCEPT !.session.local_user = Undefined]
    ELSE
    LET primary == user.login.primary_structure
        active == IF ~Truthy(primary) /\ Len(user.structures) # 0
                  THEN user.structures[1].id ELSE primary
    IN dispatchEvent(dispatchEvent(
           [a EXCEPT !.session.local_user = user,
                     !.active_structure_id = active,
                     !.local_user = user,
                     !.headers = [Authorization |-> user.token.jwt, Structure |-> active]],
           "authChanged"), "structureChanged")

\* startAuthTimer setting no timeout.
startAuthTimer_None(a) == a

\* startAuthTimer() (693-704): the timeout is set, the handle of the one set
\* before is overwritten and that timeout stays set.  A delay that is not
\* positive fires as soon as possible.
startAuthTimer(a) ==
    LET diff == a.local_user.token.exp - a.now - Margin
    IN [a EXCEPT !.timers = Append(@, a.now + (IF diff > 0 THEN diff ELSE 0))]

\* The handlers the origin of the call attached to the promise of authToApi:
\* the timer dispatches authRefreshed when it resolves (698-700) and passes
\* the error to catchError, which shows it, when it rejects (701); checkAuth,
\* which returned the promise of toggleLicence from its first then,
\* dispatches authInited when it resolves (749-751) and authError when it
\* rejects (752).
Settle(a, origin, outcome) ==
    CASE origin = "timer" /\ outcome = "resolved" -> dispatchEvent(a, "authRefreshed")
      [] origin = "checkAuth" /\ outcome = "resolved" -> dispatchEvent(a, "authInited")
      [] origin = "checkAuth" /\ outcome = "rejected" -> dispatchEvent(a, "authError")
      [] OTHER -> a

\* authToApi comparing the expiry with the clock, without the margin.
authToApi_NoMargin(a0, caller) ==
    LET a == dispatchEvent(a0, "auth")
        local_user == a.session.local_user
        request == Request("getIdToken", caller, a.axBaseURL, Undefined)
    IN IF local_user = Undefined
       THEN [app |-> Settle(a, caller.s[1], "rejected"), outcome |-> "rejected",
             error |-> "SyntaxError", value |-> <<>>, sent |-> <<>>]
       ELSE IF local_user # Null /\ local_user.token.exp - a.now > 0
       THEN [app |-> Settle(startAuthTimer(initializeLocalUser(a, local_user)),
                            caller.s[1], "resolved"),
             outcome |-> "resolved", error |-> "", value |-> <<local_user>>, sent |-> <<>>]
       ELSE [app |-> a, outcome |-> "awaiting", error |-> "", value |-> <<>>,
             sent |-> <<request>>]

\* authToApi() (473-522), up to the call of refreshAuthToApi, called by
\* caller.  The item local_user of the session storage holding the string
\* "undefined" is truthy (481) and JSON.parse throws a SyntaxError on it
\* (482) in the executor of the promise, which rejects.
authToApi(a0, caller) ==
    LET a == dispatchEvent(a0, "auth")
        local_user == a.session.local_user
        request == Request("getIdToken", caller, a.axBaseURL, Undefined)
    IN IF local_user = Undefined
       THEN [app |-> Settle(a, caller.s[1], "rejected"), outcome |-> "rejected",
             error |-> "SyntaxError", value |-> <<>>, sent |-> <<>>]
       ELSE IF local_user # Null /\ local_user.token.exp - a.now - Margin > 0
       THEN [app |-> Settle(startAuthTimer(initializeLocalUser(a, local_user)),
                            caller.s[1], "resolved"),
             outcome |-> "resolved", error |-> "", value |-> <<local_user>>, sent |-> <<>>]
       ELSE [app |-> a, outcome |-> "awaiting", error |-> "", value |-> <<>>,
             sent |-> <<request>>]

\* What the steps of the App leave alone.
NotTheApp == <<config, constructed, state, notFoundIds, controller>>

\* A call of authToApi().
AuthToApi ==
    /\ klass = "App" /\ constructed /\ nbCalls < MaxCalls
    /\ LET r == authToApi(Quiet(app), Caller("call", <<>>))
       IN /\ app' = r.app
          /\ inflight' = inflight \o r.sent
          /\ last' = Delivered("authToApi", "call", Str(<<"call">>), FALSE, r.outcome,
                               "user", r.value, r.error, r.sent, "none")
    /\ nbCalls' = nbCalls + 1
    /\ UNCHANGED NotTheApp

\* A timeout set by startAuthTimer fires (696-702): authToApi() is called.
TimerFires(k) ==
    /\ klass = "App"
    /\ k \in DOMAIN app.timers /\ app.timers[k] <= app.now
    /\ LET r == authToApi([Quiet(app) EXCEPT !.timers = Splice(@, k)], Caller("timer", <<>>))
       IN /\ app' = r.app
          /\ inflight' = inflight \o r.sent
          /\ last' = Delivered("authToApi", "timer", Str(<<"timer">>), FALSE, r.outcome,
                               "user", r.value, r.error, r.sent, "none")
    /\ UNCHANGED <<NotTheApp, nbCalls>>

\* refreshAuthToApi() (532-564): getIdToken resolves and the request
\* POST /auth is sent.
GetIdTokenThen(i) ==
    /\ klass = "App"
    /\ i \in 1..Len(inflight) /\ inflight[i].op = "getIdToken"
    /\ LET request == Request("postAuth", inflight[i].arg, app.axBaseURL, Undefined)
       IN /\ inflight' = [inflight EXCEPT ![i] = request]
          /\ last' = Delivered("authToApi", "then", inflight[i].arg, FALSE, "awaiting",
                               "undefined", <<>>, "", <<request>>, "none")
    /\ app' = Quiet(app)
    /\ UNCHANGED <<NotTheApp, nbCalls>>

\* getIdToken rejects: refreshAuthToApi rejects, its catch (546) is not on
\* that path, and authToApi rejects (497, 515).
GetIdTokenFail(i) ==
    /\ klass = "App"
    /\ i \in 1..Len(inflight) /\ inflight[i].op = "getIdToken"
    /\ inflight' = Splice(inflight, i)
    /\ app' = Settle(Quiet(app), inflight[i].arg.s[1], "rejected")
    /\ last' = Delivered("authToApi", "catch", inflight[i].arg, FALSE, "rejected",
                         "undefined", <<>>, "Error", <<>>, "none")
    /\ UNCHANGED <<NotTheApp, nbCalls>>

\* The API answers POST /auth with a user (540-545): initializeLocalUser,
\* then startAuthTimer and resolve in authToApi (490-496, 511-514).
PostAuthThen(i, user) ==
    /\ klass = "App"
    /\ i \in 1..Len(inflight) /\ inflight[i].op = "postAuth"
    /\ user \in ApiUsers(app.now, inflight[i].route)
    /\ inflight' = Splice(inflight, i)
    /\ app' = Settle(startAuthTimer(initializeLocalUser(Quiet(app), user)),
                     inflight[i].arg.s[1], "resolved")
    /\ last' = Delivered("authToApi", "then", inflight[i].arg, FALSE, "resolved",
                         "user", <<user>>, "", <<>>, "none")
    /\ UNCHANGED <<NotTheApp, nbCalls>>

\* The API answers POST /auth without a user record, resp.data.data being
\* undefined (540-543): initializeLocalUser throws after it has written the
\* session storage, the catch (546-559) dispatches authError and throws,
\* and authToApi rejects (497, 515).
PostAuthNoUser(i) ==
    /\ klass = "App"
    /\ i \in 1..Len(inflight) /\ inflight[i].op = "postAuth"
    /\ inflight' = Splice(inflight, i)
    /\ app' = Settle(dispatchEvent(initializeLocalUser(Quiet(app), Undefined), "authError"),
                     inflight[i].arg.s[1], "rejected")
    /\ last' = Delivered("authToApi", "catch", inflight[i].arg, FALSE, "rejected",
                         "undefined", <<>>, "TypeError", <<>>, "none")
    /\ UNCHANGED <<NotTheApp, nbCalls>>

\* The request POST /auth fails (546-559): authError is dispatched and
\* refreshAuthToApi, then authToApi, reject.
PostAuthFail(i) ==
    /\ klass = "App"
    /\ i \in 1..Len(inflight) /\ inflight[i].op = "postAuth"
    /\ inflight' = Splice(inflight, i)
    /\ app' = Settle(dispatchEvent(Quiet(app), "authError"), inflight[i].arg.s[1], "rejected")
    /\ last' = Delivered("authToApi", "catch", inflight[i].arg, FALSE, "rejected",
                         "undefined", <<>>, "Error", <<>>, "none")
    /\ UNCHANGED <<NotTheApp, nbCalls>>

\* initializeAxios() (112-120), the HTTP client being created.
initializeAxios(a) ==
    IF a.baseURL # a.axBaseURL THEN [a EXCEPT !.axBaseURL = a.baseURL] ELSE a

\* The classes of the errors thrown by toggleLicence (837) and by checkAuth
\* (740), imported from ./errors (6).
LicenceServerUndefinedError == "LicenceServerUndefinedError"

LicenceNotFoundError == "LicenceNotFoundError"

\* toggleLicence without the test of the host.
toggleLicence_NoHostCheck(a, licence, origin) ==
    LET before == dispatchEvent(a, "beforeLicenceChange")
        changed == dispatchEvent(
                       initializeAxios([before EXCEPT !.session.licence = licence,
                                                      !.licence = licence,
                                                      !.baseURL = LicenceURL(licence)]),
                       "licenceChanged")
        r == authToApi(changed, Caller(origin, LicenceURL(licence)))
    IN [app |-> r.app, outcome |-> r.outcome, error |-> r.error, value |-> r.value,
        sent |-> r.sent]

\* toggleLicence(licence) (835-854), called by origin.
toggleLicence(a, licence, origin) ==
    IF licence.db = ""
    THEN [app |-> a, outcome |-> "thrown", error |-> LicenceServerUndefinedError,
          value |-> <<>>, sent |-> <<>>]
    ELSE LET before == dispatchEvent(a, "beforeLicenceChange")
             changed == dispatchEvent(
                            initializeAxios([before EXCEPT !.session.licence = licence,
                                                           !.licence = licence,
                                                           !.baseURL = LicenceURL(licence)]),
                            "licenceChanged")
             r == authToApi(changed, Caller(origin, LicenceURL(licence)))
         IN [app |-> r.app, outcome |-> r.outcome, error |-> r.error, value |-> r.value,
             sent |-> r.sent]

\* A call of toggleLicence(licence).
ToggleLicence(licence) ==
    /\ klass = "App" /\ constructed /\ nbCalls < MaxCalls
    /\ LET r == toggleLicence(Quiet(app), licence, "toggleLicence")
       IN /\ app' = r.app
          /\ inflight' = inflight \o r.sent
          /\ last' = Delivered("toggleLicence", "call", Str(<<licence.db>>), licence.tls,
                               r.outcome, IF r.outcome = "thrown" THEN "undefined" ELSE "user",
                               r.value, r.error, r.sent, "none")
    /\ nbCalls' = nbCalls + 1
    /\ UNCHANGED NotTheApp

\* clearAuth leaving the licence in the session storage.
clearAuth_KeepsLicence(a) ==
    dispatchEvent(
        [dispatchEvent(a, "beforeClearAuth") EXCEPT
            !.headers = [Authorization |-> "", Structure |-> Num(0)],
            !.active_structure_id = Null,
            !.local_user = Null,
            !.licence = Null,
            !.session.local_user = Null],
        "authCleared")

\* clearAuth() (649-663).
clearAuth(a) ==
    dispatchEvent(
        [dispatchEvent(a, "beforeClearAuth") EXCEPT
            !.headers = [Authorization |-> "", Structure |-> Num(0)],
            !.active_structure_id = Null,
            !.local_user = Null,
            !.licence = Null,
            !.session = [local_user |-> Null, licence |-> Null]],
        "authCleared")

\* A call of clearAuth().
ClearAuth ==
    /\ klass = "App" /\ constructed /\ nbCalls < MaxCalls
    /\ app' = clearAuth(Quiet(app))
    /\ last' = Delivered("clearAuth", "call", Undefined, FALSE, "returned", "undefined",
                         <<>>, "", <<>>, "none")
    /\ nbCalls' = nbCalls + 1
    /\ UNCHANGED <<NotTheApp, inflight>>

(***************************************************************************)
(* app.js: App.checkAuth (729-759).  The model takes up the callback given *)
(* to onAuthStateChanged.  The callbacks of a chain of settled promises    *)
(* run one after the other with nothing of the program in between: they    *)
(* are one step.  The lookup of the licences in the directory (getDocs)    *)
(* is a request kept in inflight.                                          *)
(***************************************************************************)
\* The uids of the identities that sign in.
Uids == {"A", "B"}

\* The user given to the callback of onAuthStateChanged: null, or a user
\* written as its uid.
AuthStates == {Null} \cup {Str(<<uid>>) : uid \in Uids}

\* A document of the directory (812-816): the licence with the array users
\* its query filters on, here the one uid.
LicenceOf(licence, uid) == [db |-> licence.db, tls |-> licence.tls, users |-> <<uid>>]

\* The licences the directory holds for the user uid (800-802): for A none,
\* one, with or without host, or two; for B none or one.
DirectoryAnswers(uid) ==
    IF uid = "A"
    THEN {<<>>} \cup {<<LicenceOf(l, uid)>> : l \in Licences}
             \cup {<<LicenceOf([db |-> "h1", tls |-> TRUE], uid),
                     LicenceOf([db |-> "h1", tls |-> FALSE], uid)>>}
    ELSE {<<>>, <<LicenceOf([db |-> "h2", tls |-> TRUE], uid)>>}

\* autoSelectLicences() (768-783) with getLicences() (792-797): the licences
\* it resolves with at once, known being FALSE when the directory is to be
\* asked.
autoSelectLicences(a) ==
    IF a.session.licence # Null THEN [known |-> TRUE, licences |-> <<a.session.licence>>]
    ELSE IF a.licences.cached THEN [known |-> TRUE, licences |-> a.licences.list]
    ELSE [known |-> FALSE, licences |-> <<>>]

\* The callbacks of checkAuth testing licences.length < 0: without licence
\* it goes on as with several.
checkAuthThen_NoneAsSeveral(a, licences) ==
    IF Len(licences) = 1
    THEN LET r == toggleLicence(a, licences[1], "checkAuth")
         IN IF r.outcome = "thrown"
            THEN [app |-> dispatchEvent(r.app, "authError"), outcome |-> "rejected",
                  error |-> r.error, sent |-> <<>>]
            ELSE [app |-> r.app, outcome |-> r.outcome, error |-> r.error, sent |-> r.sent]
    ELSE [app |-> dispatchEvent(dispatchEvent(a, "licencesRetrieved"), "authInited"),
          outcome |-> "resolved", error |-> "", sent |-> <<>>]

\* The callbacks of checkAuth on the licences (738-752): outcome is that of
\* the chain, "awaiting" while authToApi, called by toggleLicence, is
\* pending; Settle then runs the last two callbacks.
checkAuthThen(a, licences) ==
    IF Len(licences) <= 0
    THEN [app |-> dispatchEvent(a, "authError"), outcome |-> "rejected",
          error |-> LicenceNotFoundError, sent |-> <<>>]
    ELSE IF Len(licences) = 1
    THEN LET r == toggleLicence(a, licences[1], "checkAuth")
         IN IF r.outcome = "thrown"
            THEN [app |-> dispatchEvent(r.app, "authError"), outcome |-> "rejected",
                  error |-> r.error, sent |-> <<>>]
            ELSE [app |-> r.app, outcome |-> r.outcome, error |-> r.error, sent |-> r.sent]
    ELSE [app |-> dispatchEvent(dispatchEvent(a, "licencesRetrieved"), "authInited"),
          outcome |-> "resolved", error |-> "", sent |-> <<>>]

\* The callback of onAuthStateChanged runs (732-758).  The query of the
\* directory carries the uid of user in route.
AuthStateChanged(user) ==
    /\ klass = "App" /\ constructed /\ nbCalls < MaxCalls
    /\ LET D(phase, outcome, value, error, sent) ==
               Delivered("checkAuth", phase, user, FALSE,
                         outcome, "licences", value, error, sent, "none")
           initializing == dispatchEvent(Quiet(app), "authInitializing")
           found == autoSelectLicences(initializing)
           request == Request("getDocs", Str(<<"checkAuth">>), user.s, Undefined)
           r == checkAuthThen(initializing, found.licences)
       IN IF ~Truthy(user)
          THEN /\ app' = dispatchEvent(clearAuth(Quiet(app)), "authInited")
               /\ last' = D("call", "returned", <<>>, "", <<>>)
               /\ UNCHANGED inflight
          ELSE IF ~found.known
          THEN /\ app' = initializing
               /\ inflight' = Append(inflight, request)
               /\ last' = D("call", "awaiting", <<>>, "", <<request>>)
          ELSE /\ app' = r.app
               /\ inflight' = inflight \o r.sent
               /\ last' = D("call", r.outcome, found.licences, r.error, r.sent)
    /\ nbCalls' = nbCalls + 1
    /\ UNCHANGED NotTheApp

\* The directory answers (804-820): this.licences is set and the callbacks
\* of checkAuth run.
GetDocsThen(i, licences) ==
    /\ klass = "App"
    /\ i \in 1..Len(inflight) /\ inflight[i].op = "getDocs"
    /\ licences \in DirectoryAnswers(inflight[i].route[1])
    /\ LET r == checkAuthThen([Quiet(app) EXCEPT
                                  !.licences = [cached |-> TRUE, list |-> licences]],
                              licences)
       IN /\ app' = r.app
          /\ inflight' = Splice(inflight, i) \o r.sent
          /\ last' = Delivered("checkAuth", "then", Str(inflight[i].route), FALSE, r.outcome,
                               "licences", licences, r.error, r.sent, "none")
    /\ UNCHANGED <<NotTheApp, nbCalls>>

\* The lookup fails: getDocs has no catch and the promise of getLicences
\* never settles (804-820).
GetDocsFail(i) ==
    /\ klass = "App"
    /\ i \in 1..Len(inflight) /\ inflight[i].op = "getDocs"
    /\ app' = Quiet(app)
    /\ inflight' = Splice(inflight, i)
    /\ last' = Delivered("checkAuth", "catch", Str(inflight[i].route), FALSE, "unsettled",
                         "licences", <<>>, "Error", <<>>, "none")
    /\ UNCHANGED <<NotTheApp, nbCalls>>

\* The error object built by new StructureUnavailableError(structureId)
\* (errors.js 5-9).
StructureUnavailableError(structureId) ==
    [name |-> "StructureUnavailableError", structureId |-> structureId]

\* The ids given to setStructure: the ids of structures as numbers, one of
\* them as a string, an id of no structure, and no id.
StructureIds == {Num(1), Num(2), Num(3), Str(<<"2">>), Undefined}

\* setStructure leaving the header of the HTTP client as it is.
setStructure_NoHeader(a, id) ==
    IF a.local_user = Null
    THEN [app |-> a, outcome |-> "thrown", error |-> "TypeError", value |-> <<>>]
    ELSE LET structures == a.local_user.structures
             found == FindIndex([k \in DOMAIN structures |-> LooseEq(structures[k].id, id)])
         IN IF found # 0
            THEN [app |-> dispatchEvent([a EXCEPT !.active_structure_id = id],
                                        "structureChanged"),
                  outcome |-> "returned", error |-> "", value |-> <<>>]
            ELSE [app |-> a, outcome |-> "thrown", error |-> "StructureUnavailableError",
                  value |-> <<StructureUnavailableError(id)>>]

\* setStructure activating the id without looking for it in the structures.
setStructure_Unchecked(a, id) ==
    IF a.local_user = Null
    THEN [app |-> a, outcome |-> "thrown", error |-> "TypeError", value |-> <<>>]
    ELSE [app |-> dispatchEvent([a EXCEPT !.active_structure_id = id,
                                          !.headers.Structure = id],
                                "structureChanged"),
          outcome |-> "returned", error |-> "", value |-> <<>>]

\* setStructure(id) (602-614): the read of this.local_user.structures throws
\* a TypeError when there is no local_user.
setStructure(a, id) ==
    IF a.local_user = Null
    THEN [app |-> a, outcome |-> "thrown", error |-> "TypeError", value |-> <<>>]
    ELSE LET structures == a.local_user.structures
             found == FindIndex([k \in DOMAIN structures |-> LooseEq(structures[k].id, id)])
         IN IF found # 0
            THEN [app |-> dispatchEvent([a EXCEPT !.active_structure_id = id,
                                                  !.headers.Structure = id],
                                        "structureChanged"),
                  outcome |-> "returned", error |-> "", value |-> <<>>]
            ELSE [app |-> a, outcome |-> "thrown", error |-> "StructureUnavailableError",
                  value |-> <<StructureUnavailableError(id)>>]

\* A call of setStructure(id).
SetStructure(id) ==
    /\ klass = "App" /\ constructed /\ nbCalls < MaxCalls
    /\ LET r == setStructure(Quiet(app), id)
       IN /\ app' = r.app
          /\ last' = Delivered("setStructure", "call", id, FALSE, r.outcome, "undefined",
                               r.value, r.error, <<>>, "none")
    /\ nbCalls' = nbCalls + 1
    /\ UNCHANGED <<NotTheApp, inflight>>

\* Time passes.
Tick(elapsed) ==
    /\ klass = "App" /\ constructed
    /\ app.now + elapsed <= MaxTime
    /\ app' = [app EXCEPT !.now = @ + elapsed]
    /\ UNCHANGED <<NotTheApp, inflight, nbCalls, last>>

(***************************************************************************)
(* The specification.                                                      *)
(***************************************************************************)
Next ==
    \/ New
    \/ \E id \in GetByIdArgs, bypass \in BOOLEAN : GetById(id, bypass)
    \/ \E i \in DOMAIN inflight : \E data \in AnswersOne(inflight[i].route) : GetByIdThen(i, data)
    \/ \E i \in DOMAIN inflight : GetByIdFail(i)
    \/ \E payload \in LoadArgs : Load(payload)
    \/ \E i \in DOMAIN inflight : \E data \in AnswersList(inflight[i].ids) : LoadThen(i, data)
    \/ \E i \in DOMAIN inflight : LoadFail(i)
    \/ Reset
    \/ \E id \in GetByIdArgs, bypass \in BOOLEAN : CtrlGetById(id, bypass)
    \/ \E i \in DOMAIN inflight : \E data \in AnswersOne(inflight[i].route), throws \in BOOLEAN :
            CtrlGetByIdThen(i, data, throws)
    \/ \E i \in DOMAIN inflight : CtrlGetByIdFail(i)
    \/ \E payload \in LoadArgs : CtrlLoad(payload)
    \/ \E i \in DOMAIN inflight : \E data \in AnswersList(inflight[i].ids) : CtrlLoadThen(i, data)
    \/ \E i \in DOMAIN inflight : CtrlLoadFail(i)
    \/ \E authProvider \in AuthProviders : loginProvider(authProvider)
    \/ \E action \in MutationActions, collection \in ItemLists : Mutation(action, collection)
    \/ \E name \in Names, i \in Instances, resetOnInit \in {"undefined", "true", "false"} :
            AddCollection(name, i, resetOnInit)
    \/ \E name \in Names : Import(name)
    \/ \E i \in DOMAIN inflight : \E data \in AnswersList(inflight[i].ids) : ImportThen(i, data)
    \/ ImportResume
    \/ \E i \in DOMAIN inflight : ImportFail(i)
    \/ \E name \in Names : ControllerGetCollection(name)
    \/ AuthToApi
    \/ \E k \in DOMAIN app.timers : TimerFires(k)
    \/ \E i \in DOMAIN inflight : GetIdTokenThen(i)
    \/ \E i \in DOMAIN inflight : GetIdTokenFail(i)
    \/ \E i \in DOMAIN inflight :
            /\ inflight[i].op = "postAuth"
            /\ \E user \in ApiUsers(app.now, inflight[i].route) : PostAuthThen(i, user)
    \/ \E i \in DOMAIN inflight : PostAuthNoUser(i)
    \/ \E i \in DOMAIN inflight : PostAuthFail(i)
    \/ \E licence \in Licences : ToggleLicence(licence)
    \/ ClearAuth
    \/ \E id \in StructureIds : SetStructure(id)
    \/ \E user \in AuthStates : AuthStateChanged(user)
    \/ \E i \in DOMAIN inflight :
            /\ inflight[i].op = "getDocs"
            /\ \E licences \in DirectoryAnswers(inflight[i].route[1]) : GetDocsThen(i, licences)
    \/ \E i \in DOMAIN inflight : GetDocsFail(i)
    \/ \E elapsed \in Elapses : Tick(elapsed)

Spec == Init /\ [][Next]_vars

(***************************************************************************)
(* Vocabulary of the properties.  Ids are compared by value, a number and  *)
(* the string that writes it being the same id.                            *)
(***************************************************************************)
IsCollection == klass = "AssetsCollection"
IsController == klass = "AssetsCollectionController"

IdValue(v) ==
    CASE v.t = "number" -> v.n
      [] v.t = "string" -> ToNumber(v.s)
      [] OTHER -> -2

SameId(a, b) == IdValue(a) = IdValue(b)

Falsy(v) == v = Undefined \/ v = Num(0) \/ v = Str(<<>>)

\* The entries of the Collection in store state st, the ids of the not-found
\* set nf.
EntriesOf(st) == getCollection(st).arr

InCollection(st, id) == \E i \in DOMAIN EntriesOf(st) : SameId(EntriesOf(st)[i].id, id)

InNotFound(nf, id) == \E i \in DOMAIN nf : SameId(nf[i], id)

\* The step just taken is the synchronous part of a call of op.
Called(l, op) == l.op = op /\ l.phase = "call"

\* The promise of the call settled with a null value, with a record.
ResolvedNull(l) == l.outcome = "resolved" /\ l.kind = "null"
ResolvedRecord(l) == l.outcome = "resolved" /\ l.kind = "record"

(***************************************************************************)
(* The properties.                                                         *)
(***************************************************************************)

\* C1: in every reachable state of an AssetsCollection no id is both present
\* in the Collection and present in the not-found set.
C1_FoundNeverNotFound ==
    IsCollection =>
        \A i \in DOMAIN EntriesOf(state) : ~InNotFound(notFoundIds, EntriesOf(state)[i].id)

\* C2: every load sets the pending flag to true before its request, and the
\* flag is false once the call has resolved or rejected, on every exit path.
C2_PendingResetOnEveryExit ==
    [][(IsCollection /\ last'.op = "load" /\ state.pending \in {"true", "false"}) =>
          /\ last'.outcome = "awaiting" => state'.pending = "true"
          /\ last'.outcome \in {"resolved", "rejected"} => state'.pending = "false"]_vars

\* The ids of the list toks (from position i on) that are to be requested:
\* every id at its first occurrence, unless it is in the Collection or in
\* the not-found set.  An empty token is no id.
RECURSIVE IdsToRequest(_, _, _, _)
IdsToRequest(st, nf, toks, i) ==
    IF i > Len(toks) THEN <<>>
    ELSE (IF /\ toks[i] # Str(<<>>)
             /\ \A j \in 1..(i - 1) : toks[j] # toks[i]
             /\ ~InCollection(st, toks[i])
             /\ ~InNotFound(nf, toks[i])
          THEN <<toks[i]>> ELSE <<>>) \o IdsToRequest(st, nf, toks, i + 1)

\* Every id of the list toks is in the Collection or in the not-found set.
AllKnown(st, nf, toks) ==
    \A i \in DOMAIN toks :
        toks[i] # Str(<<>>) => InCollection(st, toks[i]) \/ InNotFound(nf, toks[i])

\* C3: the id list of the request sent by load is the list of the requested
\* ids in input order, each kept once, without the ids that are in the
\* Collection or in the not-found set; load sends no request only when that
\* list is empty.
C3_RequestCarriesNotLoadedIds ==
    [][(IsCollection /\ Called(last', "load") /\ Truthy(last'.arg)
            /\ state.pending # "noobject") =>
          LET ids == IdsToRequest(state, notFoundIds, SplitIds(last'.arg), 1)
          IN IF last'.sent # <<>>
             THEN last'.sent[1].ids = JoinIds(ids) /\ ids # <<>>
             ELSE ids = <<>>]_vars

\* C3 happens: a load was called with a list of which only a part was sent.
C3_Witness ==
    /\ IsCollection /\ Called(last, "load") /\ last.sent # <<>>
    /\ Truthy(last.arg)
    /\ last.sent[1].ids # last.arg
    /\ Len(SplitIds(last.arg)) = 2
    /\ SplitIds(last.arg)[1] # SplitIds(last.arg)[2]
    /\ Str(<<>>) \notin {SplitIds(last.arg)[1], SplitIds(last.arg)[2]}

\* C4: a load whose id list is not empty and names only ids that are in the
\* Collection or in the not-found set sends no request and leaves the
\* Collection and the not-found set as they are.
C4_NothingToLoadNoRequest ==
    [][(IsCollection /\ Called(last', "load") /\ Truthy(last'.arg)
            /\ AllKnown(state, notFoundIds, SplitIds(last'.arg))) =>
          /\ last'.sent = <<>>
          /\ inflight' = inflight
          /\ EntriesOf(state') = EntriesOf(state)
          /\ notFoundIds' = notFoundIds]_vars

\* C4 happens: a load naming an id of the Collection and an id of the
\* not-found set returned without a request.
C4_Witness ==
    /\ IsCollection /\ Called(last, "load") /\ last.outcome = "resolved"
    /\ last.sent = <<>>
    /\ \E i, j \in DOMAIN SplitIds(last.arg) :
            /\ InCollection(state, SplitIds(last.arg)[i])
            /\ ~InNotFound(notFoundIds, SplitIds(last.arg)[i])
            /\ InNotFound(notFoundIds, SplitIds(last.arg)[j])

\* C5: load called with the empty id list (payload {id: ""}) sends no request
\* and returns without error.
C5_EmptyIdListNoRequest ==
    [][(IsCollection /\ Called(last', "load") /\ last'.arg = Str(<<>>)
            /\ state.pending # "noobject") =>
          last'.sent = <<>> /\ last'.outcome = "resolved"]_vars

\* The step delivered a record of id, or is a continuation that failed.
AnswersFor(l, id) ==
    \/ \E i \in DOMAIN l.value : SameId(l.value[i].id, id)
    \/ l.phase = "then" /\ l.error # ""

\* C6: once the fetch of getById(id) has returned no data, id is in the
\* not-found set; and as long as id is in the not-found set and not in the
\* Collection, a getById(id) without the bypass option resolves to null and
\* sends no request, and id stays there through every step that is neither a
\* reset nor an answer carrying id.
C6_NotFoundIsCached ==
    [][IsCollection =>
          /\ (last'.op = "getById" /\ last'.phase = "then" /\ ResolvedNull(last')) =>
                InNotFound(notFoundIds', last'.arg)
          /\ \A id \in GetByIdArgs :
                (~Falsy(id) /\ InNotFound(notFoundIds, id) /\ ~InCollection(state, id)) =>
                    /\ (Called(last', "getById") /\ last'.arg = id /\ ~last'.opt) =>
                          ResolvedNull(last') /\ last'.sent = <<>> /\ inflight' = inflight
                    /\ (last'.op # "reset" /\ ~AnswersFor(last', id)) =>
                          InNotFound(notFoundIds', id) /\ ~InCollection(state', id)]_vars

\* C6 happens: the id given to a first getById was answered with no data and
\* a second getById of it, without the bypass option, resolved to null.
C6_Witness ==
    /\ IsCollection /\ Called(last, "getById") /\ ~last.opt /\ ResolvedNull(last)
    /\ last.arg.t = "number"
    /\ notFoundIds = <<last.arg>>
    /\ EntriesOf(state) = <<>>
    /\ nbCalls = 2 /\ inflight = <<>>

\* C7: for an id that is not in the Collection and is in the not-found set,
\* getById sends a request to apiRoute/id if and only if the bypass option is
\* set; without it no request is sent and the result is null.
C7_FetchIffBypass ==
    [][((IsCollection \/ IsController) /\ Called(last', "getById") /\ ~Falsy(last'.arg)
            /\ ~InCollection(state, last'.arg) /\ InNotFound(notFoundIds, last'.arg)) =>
          IF last'.opt
          THEN /\ last'.sent = <<Request("getById", last'.arg, ToStr(last'.arg), Undefined)>>
               /\ inflight' = Append(inflight, last'.sent[1])
               /\ last'.outcome = "awaiting"
          ELSE /\ last'.sent = <<>>
               /\ inflight' = inflight
               /\ ResolvedNull(last')]_vars

\* C7 happens: getById with the bypass option sent a request for an id of the
\* not-found set.
C7_Witness ==
    /\ IsCollection /\ Called(last, "getById") /\ last.opt
    /\ last.sent # <<>>
    /\ InNotFound(notFoundIds, last.arg)
    /\ ~InCollection(state, last.arg)

\* C8: right after a getById(id) has resolved with a record, id is not in the
\* not-found set and the Collection has an entry for id.
C8_ResolvedRecordIsFound ==
    (IsCollection /\ last.op = "getById" /\ ResolvedRecord(last)) =>
        ~InNotFound(notFoundIds, last.arg) /\ InCollection(state, last.arg)

\* C9: getById with a falsy or absent id fails with UndefinedIdException,
\* sends no request and leaves the Collection and the not-found set as they
\* are.
C9_UndefinedIdFails ==
    [][((IsCollection \/ IsController) /\ Called(last', "getById") /\ Falsy(last'.arg)) =>
          /\ last'.outcome \in {"thrown", "rejected"}
          /\ last'.error = "UndefinedIdException"
          /\ last'.sent = <<>>
          /\ inflight' = inflight
          /\ state' = state
          /\ notFoundIds' = notFoundIds]_vars

\* C9 happens: a getById with a falsy id failed while the not-found set and
\* the Collection were not empty.
C9_Witness ==
    /\ IsCollection /\ Called(last, "getById") /\ Falsy(last.arg)
    /\ last.error = "UndefinedIdException"
    /\ notFoundIds # <<>> /\ EntriesOf(state) # <<>>

ProgrammerErrors ==
    {"UndefinedCollectionException", "UndefinedIdException", "AuthProviderUnreferencedError"}

ReferencedProviders == {Str(<<"google">>), Str(<<"microsoft">>)}

\* C10: the undefined collection at construction, the undefined id in getById
\* and the unreferenced provider in loginProvider are thrown to the caller
\* during the call, not delivered as a rejected promise.
C10_ProgrammerErrorsThrown ==
    last.error \in ProgrammerErrors => last.outcome = "thrown"

\* C10 as amended: the undefined collection and the unreferenced provider are
\* thrown to the caller during the call; the undefined id of getById rejects
\* the promise that getById returns.
C10_ThrownExceptUndefinedId ==
    /\ last.error \in {"UndefinedCollectionException", "AuthProviderUnreferencedError"} =>
            last.outcome = "thrown"
    /\ last.error = "UndefinedIdException" => last.outcome = "rejected"
    /\ (last.op = "loginProvider" /\ last.arg \notin ReferencedProviders) =>
            last.error = "AuthProviderUnreferencedError"
    /\ (last.op = "new" /\ ~constructed) => last.error = "UndefinedCollectionException"
    /\ (Called(last, "getById") /\ Falsy(last.arg)) => last.error = "UndefinedIdException"

\* C10 happens: a getById with an undefined id returned a rejected promise.
C10_Witness ==
    /\ Called(last, "getById") /\ last.arg = Undefined
    /\ last.error = "UndefinedIdException" /\ last.outcome = "rejected"

\* C11: right after reset() on an AssetsCollection configured without a
\* resetAction, with or without a namespace, the Collection returned by
\* getCollection() is empty and the not-found set is empty; this holds of a
\* first reset and of a reset that follows a reset.
C11_ResetEmptiesCollection ==
    (IsCollection /\ Called(last, "reset") /\ ~options.resetAction) =>
        EntriesOf(state) = <<>> /\ notFoundIds = <<>>

IsStore == klass = "Store"

\* The step just taken is dataCollectionMutation with one of the actions.
Mutated(l, actions) ==
    Called(l, "dataCollectionMutation") /\ l.arg \in {Str(<<a>>) : a \in actions}

Fields == {"id", "a", "b"}

NoEntry == [f \in {} |-> ""]

\* The items of the list that have the id and carry the field f.
Carriers(items, id, f) ==
    {i \in DOMAIN items : SameId(items[i].id, id) /\ f \in DOMAIN items[i]}

\* No entry before position k has the id of the entry at k.
FirstWithId(arr, k) == \A j \in 1..(k - 1) : ~SameId(arr[j].id, arr[k].id)

HasId(arr, id) == \E k \in DOMAIN arr : SameId(arr[k].id, id)

\* new is old refreshed by the items of that id: a field carried by some of
\* these items has the value of the last one that carries it, any other
\* field is as in old, present or absent.
RefreshedBy(old, new, items, id) ==
    \A f \in Fields :
        LET C == Carriers(items, id, f)
        IN IF C # {}
           THEN f \in DOMAIN new /\ new[f] = items[CHOOSE i \in C : \A j \in C : j <= i][f]
           ELSE /\ f \in DOMAIN new <=> f \in DOMAIN old
                /\ f \in DOMAIN old => new[f] = old[f]

\* C12: dataCollectionMutation with action refresh, given or by default, on
\* an existing collection: the collection grows by one entry for each id of
\* the list that it did not hold, however often the id occurs in the list;
\* the entry of an id takes the fields the items of that id carry and keeps
\* its other fields; an entry whose id is not in the list is unchanged.
C12_RefreshMergesAndAppendsOnce ==
    [][(IsStore /\ Mutated(last', {"refresh", "undefined"}) /\ state.asset.def) =>
          LET old == state.asset.arr
              new == state'.asset.arr
              items == last'.value
              fresh == {i \in DOMAIN items :
                            ~HasId(old, items[i].id) /\ FirstWithId(items, i)}
          IN /\ last'.outcome = "returned"
             /\ Len(new) = Len(old) + Cardinality(fresh)
             /\ \A k \in DOMAIN old :
                    IF FirstWithId(old, k)
                    THEN RefreshedBy(old[k], new[k], items, old[k].id)
                    ELSE new[k] = old[k]
             /\ \A i \in fresh :
                    \E p \in (Len(old) + 1)..Len(new) :
                        /\ SameId(new[p].id, items[i].id)
                        /\ RefreshedBy(NoEntry, new[p], items, items[i].id)]_vars

\* C12 happens: a refresh with two items of one new id, carrying different
\* fields, added one entry to a collection that held an entry of another id.
C12_Witness ==
    /\ IsStore /\ Mutated(last, {"refresh"}) /\ last.outcome = "returned"
    /\ Len(last.value) = 2
    /\ SameId(last.value[1].id, last.value[2].id)
    /\ DOMAIN last.value[1] # DOMAIN last.value[2]
    /\ Len(state.asset.arr) = 2
    /\ ~SameId(state.asset.arr[1].id, last.value[1].id)
    /\ DOMAIN state.asset.arr[2] = Fields

\* C13: dataCollectionMutation with action remove on an existing collection
\* raises no error, keeps every entry whose id is not in the list, leaves
\* the collection as it is when it holds none of the ids of the list, and
\* leaves no entry with an id of the list.
C13_RemoveDeletesMatchingEntries ==
    [][(IsStore /\ Mutated(last', {"remove"}) /\ state.asset.def) =>
          LET old == state.asset.arr
              new == state'.asset.arr
              items == last'.value
          IN /\ last'.outcome = "returned"
             /\ \A k \in DOMAIN old :
                    ~HasId(items, old[k].id) => \E p \in DOMAIN new : new[p] = old[k]
             /\ (\A i \in DOMAIN items : ~HasId(old, items[i].id)) => new = old
             /\ \A i \in DOMAIN items : ~HasId(new, items[i].id)]_vars

IsAssetsController == klass = "AssetsController"

\* C14: import(name, collection) calls reset() on the collection once, in the
\* step that sends the request of load(); from then on no further reset is
\* made; when load() has resolved, import() resumes, registers the
\* collection under name and resolves, leaving the store and the not-found
\* set as load() left them.
C14_ImportResetsOnceBeforeLoad ==
    [][IsAssetsController =>
          /\ Called(last', "import") =>
                /\ controller'.resets[1] = controller.resets[1] + 1
                /\ last'.sent # <<>>
                /\ inflight' = Append(inflight, last'.sent[1])
                /\ controller'.collections = controller.collections
          /\ (last'.op = "import" /\ last'.phase = "then") =>
                /\ controller'.resets = controller.resets
                /\ controller'.collections = controller.collections
                /\ last'.outcome \in {"awaiting", "rejected"}
          /\ (last'.op = "import" /\ last'.phase = "resume") =>
                /\ last'.outcome = "resolved"
                /\ controller'.resets = controller.resets
                /\ controller'.collections =
                        [controller.collections EXCEPT ![last'.arg.s[1]] = 1]
                /\ state' = state
                /\ notFoundIds' = notFoundIds
          /\ (last'.op = "import" /\ last'.outcome = "resolved") => last'.phase = "resume"]_vars

\* C14 happens: an import has resolved, the collection is registered, its one
\* reset was the one of import and it holds the records that load() received.
C14_Witness ==
    /\ IsAssetsController /\ last.op = "import" /\ last.outcome = "resolved"
    /\ controller.collections[last.arg.s[1]] = 1
    /\ controller.resets[1] = 1
    /\ Len(last.value) = 2
    /\ \A k \in DOMAIN last.value : InCollection(state, last.value[k].id)

\* C15: getCollection(name) for a name that is not registered throws an error
\* that its class and its name identify as AssetsCollectionUndefinedException
\* (or AssetsCollectionUndefinedError) and that carries the name asked for;
\* for a registered name it returns the instance registered under it.
C15_GetCollectionOrUndefinedError ==
    [][(IsAssetsController /\ Called(last', "getCollection")) =>
          LET name == last'.arg.s[1]
          IN IF controller.collections[name] = 0
             THEN /\ last'.outcome = "thrown"
                  /\ last'.error = "AssetsCollectionUndefinedException"
                  /\ last'.value[1].collectionName = name
                  /\ last'.value[1].name \in {"AssetsCollectionUndefinedException",
                                              "AssetsCollectionUndefinedError"}
             ELSE /\ last'.outcome = "returned"
                  /\ last'.value = <<[instance |-> controller.collections[name]]>>]_vars

IsApp == klass = "App"

\* The step just taken dispatched the event.
Emitted(a, event) == \E k \in DOMAIN a.events : a.events[k] = event

\* The promise of an authToApi() called by origin has settled with outcome.
AuthSettled(l, origin, outcome) ==
    l.op = "authToApi" /\ l.arg = Str(<<origin>>) /\ l.outcome = outcome

\* The item local_user of the session storage of a holds a user.
SessionHasUser(a) == a.session.local_user \notin {Null, Undefined}

\* The persisted session of a expires more than 20 seconds from now.
SessionUsable(a) ==
    SessionHasUser(a) /\ a.session.local_user.token.exp > a.now + 20

\* The requests of q made to the API, those of the directory of licences
\* left out.
ApiRequests(q) == SelectSeq(q, LAMBDA r : r.op # "getDocs")

\* C16: a step that calls authToApi (it dispatches auth, and is not the
\* passing of time after such a step) reuses the persisted session, sending
\* nothing and setting the persisted user, the promise resolving with it
\* (checkAuth hands the promise to its chain and delivers no user), if and
\* only if there is a persisted local_user whose token expires strictly
\* more than 20 seconds from now; when there is no persisted local_user or
\* its token expires within 20 seconds it starts the remote exchange and
\* takes no credentials from the session storage.  An item that holds no
\* user is not reused either.
C16_ReuseIffUsableSession ==
    [][(IsApp /\ Emitted(app', "auth") /\ app'.now = app.now) =>
          IF SessionUsable(app)
          THEN /\ last'.sent = <<>>
               /\ ApiRequests(inflight') = ApiRequests(inflight)
               /\ last'.outcome = "resolved"
               /\ last'.op # "checkAuth" => last'.value = <<app.session.local_user>>
               /\ app'.local_user = app.session.local_user
               /\ app'.headers.Authorization = app.session.local_user.token.jwt
          ELSE IF app.session.local_user = Null \/ SessionHasUser(app)
          THEN /\ Len(last'.sent) = 1
               /\ last'.sent[1].op = "getIdToken"
               /\ ApiRequests(inflight') = Append(ApiRequests(inflight), last'.sent[1])
               /\ last'.outcome = "awaiting"
               /\ app'.local_user = app.local_user
               /\ app'.headers = app.headers
          ELSE /\ last'.outcome # "resolved"
               /\ app'.local_user = app.local_user
               /\ app'.headers = app.headers]_vars

\* C16 happens: authToApi was called with a persisted session expiring in 5
\* seconds and started the remote exchange.
C16_Witness ==
    /\ IsApp /\ Called(last, "authToApi") /\ last.sent # <<>>
    /\ app.session.local_user # Null
    /\ app.session.local_user.token.exp = app.now + 5

\* C17: a timeout that fires calls authToApi; when that call resolves
\* authRefreshed is dispatched, and when it rejects, for a failure of
\* getIdToken or of the request, authError is dispatched.
C17_TimerRefreshNotifies ==
    IsApp =>
        /\ last.phase = "timer" => Emitted(app, "auth")
        /\ AuthSettled(last, "timer", "resolved") => Emitted(app, "authRefreshed")
        /\ AuthSettled(last, "timer", "rejected") => Emitted(app, "authError")

\* C18: at most one refresh timeout is set at any time.
C18_AtMostOneTimer ==
    IsApp => Len(app.timers) <= 1

\* C19: right after initializeLocalUser(user) (it dispatches authChanged) the
\* active structure is user.login.primary_structure when that is set,
\* otherwise the id of the first of user.structures when there is one,
\* otherwise null or undefined; the Structure header carries it and the step
\* ends without error.
C19_ActiveStructureOfUser ==
    (IsApp /\ Emitted(app, "authChanged")) =>
        LET user == app.local_user
            primary == user.login.primary_structure
        IN /\ IF primary \notin {Null, Undefined}
              THEN app.active_structure_id = primary
              ELSE IF user.structures # <<>>
              THEN app.active_structure_id = user.structures[1].id
              ELSE app.active_structure_id \in {Null, Undefined}
           /\ app.headers.Structure = app.active_structure_id
           /\ last.outcome = "resolved" /\ last.error = ""

\* C19 happens: a user without primary structure and with two structures was
\* initialised, and the first of the two is active.
C19_Witness ==
    /\ IsApp /\ Emitted(app, "authChanged")
    /\ app.local_user.login.primary_structure = Null
    /\ Len(app.local_user.structures) = 2
    /\ app.active_structure_id = Num(2)
    /\ last.phase = "then"

\* C20: right after clearAuth() nothing is persisted under local_user and
\* under licence, the Authorization header is empty, the Structure header
\* is 0, local_user, active_structure_id and licence are null, and the call
\* has returned; this is so whatever the state before, a state that
\* clearAuth() left included.
C20_ClearAuthClears ==
    (IsApp /\ Called(last, "clearAuth")) =>
        /\ app.session = [local_user |-> Null, licence |-> Null]
        /\ app.headers = [Authorization |-> "", Structure |-> Num(0)]
        /\ app.local_user = Null
        /\ app.active_structure_id = Null
        /\ app.licence = Null
        /\ last.outcome = "returned"

\* C20 happens: clearAuth() was called after a toggleLicence that had set the
\* licence, the base URL, the session and a timer.
C20_Witness ==
    /\ IsApp /\ Called(last, "clearAuth") /\ nbCalls = 2
    /\ app.baseURL # <<>>
    /\ app.timers # <<>>
    /\ Emitted(app, "authCleared")

\* The id is the id of one of the structures of the user.
IsStructureOf(user, id) ==
    \E k \in DOMAIN user.structures : SameId(user.structures[k].id, id)

\* C21: setStructure(id), called when there is a local_user, with an id of
\* none of local_user.structures throws StructureUnavailableError carrying
\* the id, leaves active_structure_id and the Structure header as they are
\* and dispatches no structureChanged; with the id of one of them it sets
\* both to id, dispatches structureChanged and returns.
C21_SetStructureOfUserOnly ==
    [][(IsApp /\ Called(last', "setStructure") /\ app.local_user # Null) =>
          IF IsStructureOf(app.local_user, last'.arg)
          THEN /\ last'.outcome = "returned"
               /\ app'.active_structure_id = last'.arg
               /\ app'.headers.Structure = last'.arg
               /\ Emitted(app', "structureChanged")
          ELSE /\ last'.outcome = "thrown"
               /\ last'.error = "StructureUnavailableError"
               /\ last'.value = <<StructureUnavailableError(last'.arg)>>
               /\ app'.active_structure_id = app.active_structure_id
               /\ app'.headers = app.headers
               /\ ~Emitted(app', "structureChanged")]_vars

\* C21 happens: setStructure(3) was refused for a user of the structures 2
\* and 1 whose active structure is 2.
C21_Witness ==
    /\ IsApp /\ Called(last, "setStructure") /\ last.arg = Num(3)
    /\ last.error = "StructureUnavailableError"
    /\ app.local_user # Null
    /\ Len(app.local_user.structures) = 2
    /\ app.active_structure_id = Num(2)
    /\ app.headers.Structure = Num(2)

\* C22: toggleLicence(licence) with a licence that has no host throws
\* LicenceServerUndefinedError and changes nothing: api.baseURL, the base URL
\* of the HTTP client, the persisted licence and session, this.licence, the
\* user, the headers and the timers are as before, no event is dispatched
\* (no beforeLicenceChange, licenceChanged or auth) and no request is sent.
C22_NoHostChangesNothing ==
    [][(IsApp /\ Called(last', "toggleLicence") /\ last'.arg = Str(<<"">>)) =>
          /\ last'.outcome = "thrown"
          /\ last'.error = "LicenceServerUndefinedError"
          /\ app'.baseURL = app.baseURL
          /\ app'.axBaseURL = app.axBaseURL
          /\ app'.session = app.session
          /\ app'.licence = app.licence
          /\ app'.local_user = app.local_user
          /\ app'.headers = app.headers
          /\ app'.timers = app.timers
          /\ app'.events = <<>>
          /\ last'.sent = <<>>
          /\ inflight' = inflight]_vars

\* C22 happens: toggleLicence was refused for a licence without host while
\* another licence was active and its session was being obtained.
C22_Witness ==
    /\ IsApp /\ Called(last, "toggleLicence") /\ last.arg = Str(<<"">>)
    /\ last.outcome = "thrown"
    /\ app.licence # Null /\ app.session.licence = app.licence
    /\ app.axBaseURL = LicenceURL(app.licence)
    /\ inflight # <<>>

\* The step just taken is checkAuth going on with the licences found for a
\* signed-in user.
LicencesFound(l) ==
    /\ l.op = "checkAuth" /\ l.arg # Null
    /\ l.phase \in {"call", "then"} /\ l.kind = "licences"
    /\ ~(l.phase = "call" /\ l.outcome = "awaiting" /\ l.value = <<>>)

\* C23: when the lookup of the licences of a signed-in user gives two
\* licences or more, licencesRetrieved is dispatched and authInited is not:
\* it is not dispatched before toggleLicence is called.
C23_NoAuthInitedBeforeSelection ==
    (IsApp /\ LicencesFound(last) /\ Len(last.value) >= 2) =>
        Emitted(app, "licencesRetrieved") /\ ~Emitted(app, "authInited")

\* C24: when the lookup of the licences of a signed-in user gives no
\* licence, checkAuth raises LicenceNotFoundError and dispatches authError;
\* that step dispatches no authInited, activates no licence (this.licence,
\* the persisted licence and the base URLs are as before), calls no
\* authToApi and sends no request.
C24_NoLicenceIsAuthError ==
    [][(IsApp /\ LicencesFound(last') /\ last'.value = <<>>) =>
          /\ last'.error = "LicenceNotFoundError"
          /\ Emitted(app', "authError")
          /\ ~Emitted(app', "authInited")
          /\ ~Emitted(app', "auth")
          /\ ~Emitted(app', "beforeLicenceChange") /\ ~Emitted(app', "licenceChanged")
          /\ app'.licence = app.licence
          /\ app'.session = app.session
          /\ app'.baseURL = app.baseURL
          /\ app'.axBaseURL = app.axBaseURL
          /\ app'.local_user = app.local_user
          /\ app'.headers = app.headers
          /\ last'.sent = <<>>
          /\ \A j \in DOMAIN inflight' : \E i \in DOMAIN inflight : inflight'[j] = inflight[i]
          /\ Len(inflight') <= Len(inflight)]_vars

\* C24 happens: the directory answered the lookup with no licence and
\* authError was dispatched.
C24_Witness ==
    /\ IsApp /\ LicencesFound(last) /\ last.phase = "then" /\ last.value = <<>>
    /\ last.error = "LicenceNotFoundError"
    /\ app.licences = [cached |-> TRUE, list |-> <<>>]
    /\ app.events = <<"authError">>

\* The promise of a toggleLicence(licence), called directly or by checkAuth,
\* has resolved in the step just taken.
ToggleResolved(l) ==
    /\ l.outcome = "resolved"
    /\ \/ Called(l, "toggleLicence")
       \/ l.op = "authToApi" /\ l.arg.s[1] \in {"toggleLicence", "checkAuth"}
       \/ l.op = "checkAuth" /\ Len(l.value) = 1

\* The base URL of the API of that licence.
ToggledURL(l) ==
    CASE l.op = "toggleLicence" -> LicenceURL([db |-> l.arg.s[1], tls |-> l.opt])
      [] l.op = "checkAuth" -> LicenceURL(l.value[1])
      [] OTHER -> Tail(l.arg.s)

\* C25: when toggleLicence(L), L having a host, has resolved, the base URL of
\* the HTTP client is http(s)://L.db/api/, https if and only if L.tls, and
\* the Authorization header and local_user carry the token the API of L
\* issued, also when a session of another API is persisted and not expired.
C25_SessionOfToggledLicence ==
    (IsApp /\ ToggleResolved(last)) =>
        /\ app.axBaseURL = ToggledURL(last)
        /\ app.baseURL = ToggledURL(last)
        /\ app.headers.Authorization = Jwt(ToggledURL(last))
        /\ app.local_user.token.jwt = Jwt(ToggledURL(last))

\* C26: when the request sent by getById or by load fails, the promise that
\* call returned is rejected by the step that handles the failure; it is not
\* left pending.
C26_FailedFetchRejects ==
    (IsCollection /\ last.op \in {"getById", "load"} /\ last.phase = "catch") =>
        last.outcome = "rejected"

\* The list of records holds a record of that id.
InResponse(data, id) == \E k \in DOMAIN data : SameId(data[k].id, id)

\* The id is one of the list toks.
InList(toks, id) == \E i \in DOMAIN toks : SameId(toks[i], id)

\* C27: when a load called with an id list has received its response and
\* resolved, every id of that list that is the id of a record of the
\* response is out of the not-found set, every other id of the list is in
\* it, and an id that is not in the list is in the not-found set exactly
\* when it was before.
C27_ResponseReconciled ==
    [][(IsCollection /\ last'.op = "load" /\ last'.phase = "then"
            /\ last'.outcome = "resolved" /\ Truthy(last'.arg)) =>
          LET toks == SplitIds(last'.arg)
          IN /\ \A i \in DOMAIN toks :
                    InNotFound(notFoundIds', toks[i]) <=> ~InResponse(last'.value, toks[i])
             /\ \A id \in GetByIdArgs :
                    (~Falsy(id) /\ ~InList(toks, id)) =>
                        (InNotFound(notFoundIds', id) <=> InNotFound(notFoundIds, id))]_vars

\* C28: an id that is in the Collection stays in it and out of the not-found
\* set through every step that is not a reset, a getById of it resolves
\* with its record, not with null; right after reset() every id is neither
\* in the Collection nor in the not-found set.
C28_FoundUntilReset ==
    [][IsCollection =>
          \A id \in {Num(i) : i \in ApiIds} :
              /\ (InCollection(state, id) /\ last'.op # "reset") =>
                    /\ InCollection(state', id)
                    /\ ~InNotFound(notFoundIds', id)
                    /\ (Called(last', "getById") /\ SameId(last'.arg, id)) =>
                            ResolvedRecord(last')
              /\ Called(last', "reset") =>
                    ~InCollection(state', id) /\ ~InNotFound(notFoundIds', id)]_vars

\* No two entries of the array have the same id.
UniqueIds(arr) == \A i, j \in DOMAIN arr : SameId(arr[i].id, arr[j].id) => i = j

\* C29: in every reachable state of an AssetsCollection whose Collection
\* was empty at construction, whatever the calls of getById, load and reset
\* and the order of their responses, no two entries of the Collection (and
\* of state[assetName]) have the same id.
C29_UniqueIds ==
    IsCollection => UniqueIds(EntriesOf(state)) /\ UniqueIds(state.asset.arr)

\* C29 happens: of two fetches of the same id in flight together one has
\* been answered with the record, which is in the Collection, and the other
\* is still to be answered.
C29_Witness ==
    /\ IsCollection /\ last.op = "getById" /\ last.phase = "then" /\ ResolvedRecord(last)
    /\ nbCalls = 2 /\ Len(inflight) = 1
    /\ inflight[1].op = "getById" /\ SameId(inflight[1].arg, last.arg)
    /\ InCollection(state, last.arg)

\* C30: a getById(id) for an id that is neither in the Collection nor in the
\* not-found set sends its own request to apiRoute/id, whatever requests
\* are in flight, that of an earlier getById(id) included; and the response
\* to each request settles the promise of its call, with the record or with
\* null, and takes that request alone out of the requests in flight.
C30_NoCoalescing ==
    [][IsCollection =>
          /\ (Called(last', "getById") /\ ~Falsy(last'.arg)
                /\ ~InCollection(state, last'.arg) /\ ~InNotFound(notFoundIds, last'.arg)) =>
                    /\ last'.sent = <<Request("getById", last'.arg, ToStr(last'.arg), Undefined)>>
                    /\ inflight' = Append(inflight, last'.sent[1])
                    /\ last'.outcome = "awaiting"
          /\ (last'.op = "getById" /\ last'.phase = "then") =>
                    /\ last'.outcome = "resolved"
                    /\ \/ ResolvedNull(last')
                       \/ ResolvedRecord(last') /\ SameId(last'.value[1].id, last'.arg)
                    /\ \E i \in DOMAIN inflight :
                            /\ inflight[i] = Request("getById", last'.arg, ToStr(last'.arg),
                                                     Undefined)
                            /\ inflight' = Splice(inflight, i)]_vars

\* C31: of the loads of an AssetsCollection awaiting their response no two
\* were started for the same list of ids: a load started while a load of
\* the same ids is in flight sends no request of its own.
C31_OneRequestPerIdSet ==
    IsCollection =>
        \A i, j \in DOMAIN inflight :
            (/\ inflight[i].op = "load" /\ inflight[j].op = "load"
             /\ Truthy(inflight[i].arg) /\ inflight[i].arg = inflight[j].arg) => i = j

\* The store has a pending flag for the collection.
HasPendingFlag(st) == st.pending \in {"true", "false"}

\* C32: the pending flag is a boolean written by the last writer: a load
\* that sends its request leaves it true, and the completion of a load,
\* with a response or a failure, leaves it false whatever other loads are
\* still awaiting their response.
C32_PendingLastWriterWins ==
    [][(IsCollection /\ HasPendingFlag(state) /\ last'.op = "load") =>
          /\ (last'.phase = "call" /\ last'.outcome = "awaiting") => state'.pending = "true"
          /\ last'.phase \in {"then", "catch"} => state'.pending = "false"]_vars

\* C32 happens: of two loads in flight together one has completed, the flag
\* is false and the other is still awaiting its response.
C32_Witness ==
    /\ IsCollection /\ last.op = "load" /\ last.phase \in {"then", "catch"}
    /\ state.pending = "false"
    /\ \E i \in DOMAIN inflight : inflight[i].op = "load"

\* The step just taken ended a remote exchange of authToApi with a user
\* returned by the API; it ended one with a failure.
ExchangeSucceeded(l) == l.op = "authToApi" /\ l.phase = "then" /\ l.kind = "user"
ExchangeFailed(l) == l.op = "authToApi" /\ l.phase = "catch"

\* C33: when the remote exchange of authToApi succeeds, in the step that
\* resolves the promise with the user returned, that user is the item
\* local_user of the session storage and the local_user of the App, and one
\* more timeout is set, for 20 seconds before the expiry of its token; when
\* the exchange fails the promise rejects and no timeout is set.  (The
\* passing of time is no step of the exchange.)
C33_ExchangePersistsAndArms ==
    [][(IsApp /\ app'.now = app.now) =>
          /\ ExchangeSucceeded(last') =>
                /\ last'.outcome = "resolved"
                /\ app'.session.local_user = last'.value[1]
                /\ app'.local_user = last'.value[1]
                /\ app'.timers = Append(app.timers, last'.value[1].token.exp - Margin)
          /\ ExchangeFailed(last') =>
                /\ last'.outcome = "rejected"
                /\ app'.timers = app.timers]_vars

\* C33 happens: the API has answered the exchange with a user, who is
\* persisted and in memory, with a timeout set.
C33_Witness ==
    /\ IsApp /\ ExchangeSucceeded(last) /\ last.outcome = "resolved"
    /\ app.local_user = last.value[1] /\ app.timers # <<>>

\* C34: in every reachable state where the App has a local_user, the
\* Authorization header of the HTTP client is the jwt of its token and the
\* Structure header is the active_structure_id.
C34_HeadersOfSession ==
    (IsApp /\ app.local_user # Null) =>
        /\ app.headers.Authorization = app.local_user.token.jwt
        /\ app.headers.Structure = app.active_structure_id

\* C34 happens: a structure other than the one chosen at sign-in has been
\* activated with setStructure for the local_user.
C34_Witness ==
    /\ IsApp /\ Called(last, "setStructure") /\ last.outcome = "returned"
    /\ app.local_user # Null
    /\ app.active_structure_id = Num(1) /\ app.headers.Structure = Num(1)

\* The array users of the licence contains uid.
HasUser(licence, uid) == \E k \in DOMAIN licence.users : licence.users[k] = uid

\* C35: the licences that getLicences resolves with in the callbacks of
\* checkAuth for a signed-in user (the session storage holding no licence,
\* or the directory having answered) all have the uid of that user in their
\* users.
C35_LicencesOfSignedInUser ==
    [][(/\ IsApp /\ app'.now = app.now /\ LicencesFound(last')
        /\ (last'.phase = "then" \/ app.session.licence = Null)) =>
          \A k \in DOMAIN last'.value : HasUser(last'.value[k], last'.arg.s[1])]_vars

\* The session of a is as clearAuth leaves it.
Cleared(a) ==
    /\ a.local_user = Null /\ a.session.local_user = Null
    /\ a.headers = [Authorization |-> "", Structure |-> Num(0)]

\* The step just taken belongs to an authToApi called by a timeout.
OfTimer(l) == l.op = "authToApi" /\ l.arg = Str(<<"timer">>)

\* C36: while the session is as clearAuth left it, no step of an
\* authentication started by a timeout changes it: the headers stay
\* cleared, no local_user is persisted or set, and neither authError nor
\* authRefreshed is dispatched.
C36_ClearedUntilNewAuth ==
    [][(IsApp /\ app'.now = app.now /\ Cleared(app) /\ OfTimer(last')) =>
          /\ Cleared(app')
          /\ ~Emitted(app', "authError") /\ ~Emitted(app', "authRefreshed")]_vars

\* The structure a sign-in of user makes active.
ChosenAtSignIn(user) ==
    IF ~Truthy(user.login.primary_structure) /\ Len(user.structures) # 0
    THEN user.structures[1].id ELSE user.login.primary_structure

\* C37: an active structure that is not the one the sign-in chose, so one
\* activated with setStructure, stays the active_structure_id and the
\* Structure header through every step of an authToApi called directly or
\* by a timeout.
C37_StructureKeptAcrossRefresh ==
    [][(/\ IsApp /\ app'.now = app.now /\ app.local_user # Null
        /\ app.active_structure_id # ChosenAtSignIn(app.local_user)
        /\ last'.op = "authToApi" /\ last'.arg \in {Str(<<"call">>), Str(<<"timer">>)}) =>
          /\ app'.active_structure_id = app.active_structure_id
          /\ app'.headers.Structure = app.active_structure_id]_vars

\* C38: a remote exchange that fails, or is answered without a user record,
\* leaves the session storage, the local_user, the active_structure_id and
\* the headers as they were; and no call of authToApi, made directly or by
\* a timeout, rejects before it has sent anything.
C38_FailedExchangeChangesNothing ==
    [][(IsApp /\ app'.now = app.now) =>
          /\ ExchangeFailed(last') =>
                /\ app'.session = app.session
                /\ app'.local_user = app.local_user
                /\ app'.active_structure_id = app.active_structure_id
                /\ app'.headers = app.headers
          /\ (last'.op = "authToApi" /\ last'.phase \in {"call", "timer"}) =>
                last'.outcome # "rejected"]_vars

\* The step just taken belongs to the chain of callbacks of checkAuth for a
\* signed-in user, and the chain waits for nothing any more.
CheckAuthEnded(l) ==
    /\ \/ l.op = "checkAuth" /\ l.arg # Null
       \/ l.op = "authToApi" /\ l.arg.s # <<>> /\ l.arg.s[1] = "checkAuth"
    /\ l.outcome # "awaiting"

\* event1 was dispatched by the step just taken, and event2 after it.
EmittedInOrder(a, event1, event2) ==
    \E j, k \in DOMAIN a.events : j < k /\ a.events[j] = event1 /\ a.events[k] = event2

\* C39: every auth-state change handled by checkAuth ends with a
\* notification: for no user the step dispatches authCleared, then
\* authInited; for a signed-in user the step after which the chain waits
\* for no answer any more (of the directory, of getIdToken, of the API), be
\* the answer a success or a failure, dispatches authInited, authError or
\* licencesRetrieved.
C39_CheckAuthNotifies ==
    [][(IsApp /\ app'.now = app.now) =>
          /\ (last'.op = "checkAuth" /\ last'.arg = Null) =>
                EmittedInOrder(app', "authCleared", "authInited")
          /\ CheckAuthEnded(last') =>
                \/ Emitted(app', "authInited")
                \/ Emitted(app', "authError")
                \/ Emitted(app', "licencesRetrieved")]_vars

\* C40: the step that handles an empty answer to the request of a
\* getById(id), the one that leaves id in the not-found set, leaves the
\* store as it is and updates it in no way: no mutation is applied and no
\* update action is dispatched.  For AssetsCollection and for
\* AssetsCollectionController.
C40_EmptyAnswerOnlyNotFound ==
    [][(/\ IsCollection \/ IsController
        /\ last'.op = "getById" /\ last'.phase = "then"
        /\ InNotFound(notFoundIds', last'.arg)) =>
          /\ state' = state
          /\ last'.store = "none"]_vars

====
